---- MODULE Spec2Model ----
(***************************************************************************)
(* A model of the c19 default state engine (src/src/state/default.rs):     *)
(* a timestamped key/value store with TTL expiry, conflict resolution by   *)
(* timestamp, a lazily computed XOR-folded version, a bounded ingest       *)
(* channel drained by one worker, and a background purge.                  *)
(***************************************************************************)
EXTENDS Integers, Sequences, FiniteSets, TLC

\* ------------------------------------------------------------------ bounds
\* u64 is scaled down to the values 0 .. Width-1; arithmetic wraps at Width.
Width == 8
\* The wall clock (epoch()) runs from 1 up to MaxNow.
MaxNow == 4
\* Connection.r0, the size of the sample, is one of 0 .. MaxR0.
MaxR0 == 3
\* At most this many callers are blocked in set() on a full channel at once.
MaxBlocked == 1
\* Capacity of the ingest channel (64000 in the source, scaled down).
MAX_SET_OPS == 1
\* The bound of the channel in the runs that watch the order of the pending
\* payloads (64000 in the source as well).
FifoSlots == 2

U64Max == Width - 1

Nodes == {"n1", "n2"}
Keys == {"cat", "dog"}
Values == {"garfield", "nyan"}
\* Option::None of ttl, and an entry whose JSON has no "ts" field.
NoTtl == 0 - 1
NoTs == 0 - 1
\* String::default(), the cached version before the first computation.
EmptyString == <<>>

VARIABLES
    now,             \* what epoch() returns
    overflow_checks, \* build profile: TRUE = u64 overflow panics, FALSE = wraps
    inputs,          \* the byte payloads the clients of this run send
    ttl,             \* Default.ttl of each node (NoTtl = none configured)
    storage,         \* Default.storage: key -> Value, per node
    is_dirty,        \* Default.is_dirty
    version,         \* Default.version (the cached string)
    queue,           \* the sync_channel between set() and async_set
    senders,         \* payloads of set() callers blocked in tx.send
    rx_alive,        \* the async_set thread (holder of rx) is running
    poisoned,        \* the storage RwLock was poisoned by a panic under the write guard
    offered,         \* history: greatest explicit ts offered through set(), per key
    accepted,        \* history: greatest ts merged (not skipped) since the key was last absent
    vlast,           \* history: what the last version() call returned
    changed,         \* history: a merge inserted or replaced an entry since the last version() call
    last_set,        \* history: how the last set() call's tx.send went
    last_merge,      \* history: what the last iteration of async_set did
    ret,             \* the last result handed back by get / get_root / diff
    bound,           \* the bound the sync_channel was created with
    backlog,         \* history: payloads left pending behind the one async_set took last
    resp,            \* the last response an HTTP handler returned
    pull,            \* the receiver loop of each node: its request and the reply to it
    push,            \* the publisher loop of each node: its position and its payload
    last_published,          \* the publisher's last_published bytes
    last_published_version,  \* the publisher's last_published_version
    peers,           \* K8s.peers: pod uid -> address
    events,          \* history: the watch events the provider has handled
    boot,            \* State::init of each node: its position, its seeder, the loads made
    tasks,           \* run(): the two spawned layers and what run() is waiting for
    created,         \* history: the entries an ingest worker stamped with epoch() itself
    sampled,         \* the last snapshot of the peers a loop took and its sample
    locks,           \* the guards held on the RwLocks storage, version and is_dirty
    merging,         \* the ingest worker's position inside Default::set
    calls            \* the get / get_root / diff / version calls in progress

vars == <<now, overflow_checks, inputs, ttl, storage, is_dirty, version, queue,
          senders, rx_alive, poisoned, offered, accepted, vlast, changed,
          last_set, last_merge, ret, bound, backlog, resp, pull, push,
          last_published, last_published_version, peers, events,
          boot, tasks, created, sampled, locks, merging, calls>>

\* The variables of the connection layer, the agent and the peer provider.
conn_vars == <<resp, pull, push, last_published, last_published_version, peers, events>>

\* ------------------------------------------------------------- u64 helpers
RECURSIVE Pow2(_)
Pow2(i) == IF i = 0 THEN 1 ELSE 2 * Pow2(i - 1)

RECURSIVE Xor(_, _)
Xor(a, b) ==
    IF a = 0 THEN b
    ELSE IF b = 0 THEN a
    ELSE (((a % 2) + (b % 2)) % 2) + (2 * Xor(a \div 2, b \div 2))

RECURSIVE Digits(_)
Digits(x) == IF x < 10 THEN <<x>> ELSE Append(Digits(x \div 10), x % 10)

\* u64::to_string: the decimal digits.
to_string(x) == Digits(x)

KeyIdx(k) == IF k = "cat" THEN 0 ELSE 1
\* HashMap iteration order (fixed per content; the claims do not depend on it).
KeyOrder == <<"cat", "dog">>

\* ------------------------------------------------------------------ Value
Entry(v, ts, t) == [value |-> v, ts |-> ts, ttl |-> t]

\* ttl + self.ts exceeds u64.
Overflows(e) == e.ttl # NoTtl /\ e.ttl + e.ts > U64Max

\* Value::is_expired in a build where the addition wraps.
is_expired(e, t) ==
    IF e.ttl = NoTtl THEN FALSE ELSE ((e.ttl + e.ts) % (U64Max + 1)) < t

\* Value::is_expired in a build with overflow checks panics instead.
Panics(e) == overflow_checks /\ Overflows(e)

\* -------------------------------------------------------- bytes and JSON
\* A byte payload: ok = FALSE for bytes that are not a JSON object key -> entry,
\* otherwise body lists the members of the object in the order written.
Member(k, v, ts, t) == [key |-> k, value |-> v, ts |-> ts, ttl |-> t]
Bytes(ok, body) == [ok |-> ok, body |-> body]
NoBytes == Bytes(FALSE, <<>>)
\* Bytes of a JSON object whose first entry is well formed and whose second
\* is not an entry: they do not decode.
Garbled == Bytes(FALSE, <<Member("dog", "nyan", 1, NoTtl)>>)
EmptyObject == Bytes(TRUE, <<>>)

\* serde_json::from_slice into HashMap<String, Box<Value>>: a repeated key keeps
\* its last member; a missing ts is filled by epoch() at decoding time.
MaxIdx(S) == CHOOSE i \in S : \A j \in S : j <= i
from_slice(b, t) ==
    LET ks == {b.body[i].key : i \in 1..Len(b.body)}
        last(k) == b.body[MaxIdx({i \in 1..Len(b.body) : b.body[i].key = k})]
    IN [k \in ks |->
           Entry(last(k).value, IF last(k).ts = NoTs THEN t ELSE last(k).ts, last(k).ttl)]

\* serde_json::to_vec of a HashMap<String, Box<Value>>.
RECURSIVE ToMembers(_, _)
ToMembers(m, i) ==
    IF i > Len(KeyOrder) THEN <<>>
    ELSE IF KeyOrder[i] \in DOMAIN m
         THEN <<Member(KeyOrder[i], m[KeyOrder[i]].value, m[KeyOrder[i]].ts,
                       m[KeyOrder[i]].ttl)>> \o ToMembers(m, i + 1)
         ELSE ToMembers(m, i + 1)
\* A variant of as_bytes that leaves the ts of every entry out.
as_bytes_Unstamped(m) ==
    Bytes(TRUE, [i \in 1..Len(ToMembers(m, 1)) |-> [ToMembers(m, 1)[i] EXCEPT !.ts = NoTs]])

as_bytes(m) == Bytes(TRUE, ToMembers(m, 1))

EmptyMap == [k \in {} |-> Entry("garfield", 0, NoTtl)]
Restrict(m, S) == [k \in S |-> m[k]]
\* ------------------------------------------------------------------ merge
\* Variants of the replacement test with the comparison turned round, and
\* with equal timestamps let through.
Newer_Reversed(v, right) == v.ts > right.ts
Newer_OrEqual(v, right) == v.ts <= right.ts

\* The test `v.ts < right.ts` that lets an incoming entry replace the stored one.
Newer(v, right) == v.ts < right.ts

\* `right.ttl = self.ttl` when the engine has a default and the entry has none.
WithDefaultTtl(right, dttl) ==
    IF dttl # NoTtl /\ right.ttl = NoTtl THEN [right EXCEPT !.ttl = dttl] ELSE right

\* A variant of Live that skips nothing.
Live_All(map, t) == DOMAIN map

\* The entries of a payload that the loop of Default::set does not skip.
Live(map, t) == {k \in DOMAIN map : ~is_expired(map[k], t)}

\* The storage after the loop of Default::set has run over `map`.
Merged(st, map, dttl, t) ==
    [k \in DOMAIN st \cup Live(map, t) |->
        IF k \notin Live(map, t) THEN st[k]
        ELSE IF k \in DOMAIN st
             THEN IF Newer(st[k], WithDefaultTtl(map[k], dttl))
                  THEN WithDefaultTtl(map[k], dttl) ELSE st[k]
             ELSE WithDefaultTtl(map[k], dttl)]

\* The flag Default::set writes at its end: the argument of or_insert is
\* evaluated for every entry that is not skipped, stored or not.
DirtyAfter(map, t) == Live(map, t) # {}

\* The keys a merge inserted or whose entry it replaced.
Touched(st, st2) == {k \in DOMAIN st2 : k \notin DOMAIN st \/ st2[k] # st[k]}

\* ------------------------------------------------------------------- hash
\* XxHash64 over (key, ts), taken as collision free: one bit per pair.
XxHash64(k, ts) == Pow2(KeyIdx(k) * (U64Max + 1) + ts)

RECURSIVE HashFold(_, _)
HashFold(hm, ks) ==
    IF ks = {} THEN 0
    ELSE LET k == CHOOSE x \in ks : TRUE
         IN Xor(XxHash64(k, hm[k].ts), HashFold(hm, ks \ {k}))

\* fn hash: the XOR of the digests of every entry of the map.
hash(hm) == HashFold(hm, DOMAIN hm)

\* -------------------------------------------------------------- read side
NoRet == [op |-> "none", key |-> "", other |-> NoBytes, status |-> "none", map |-> EmptyMap]
Ret(op, k, other, status, map) ==
    [op |-> op, key |-> k, other |-> other, status |-> status, map |-> map]

\* State::get on a storage snapshot: the entry unless absent or expired.
get(st, k, t) ==
    IF k \in DOMAIN st /\ ~is_expired(st[k], t) THEN Restrict(st, {k}) ELSE EmptyMap

\* State::get_root: the clone of the storage.
get_root(st) == st

\* Variants of the closure of diff: one that keeps a key of equal ts, one that
\* picks the entry of greater ts.
DiffKeeps_Always(left, right) == TRUE
DiffPick_Newer(left, right) == IF left.ts < right.ts THEN right ELSE left

\* The closure of diff for a key on both sides: whether an entry is kept, and
\* which.
DiffKeeps(left, right) == left.ts # right.ts
DiffPick(left, right) == IF left.ts < right.ts THEN left ELSE right

\* State::diff: im's difference_with, the symmetric difference with the
\* closure deciding the keys present on both sides.
diff(st, other) ==
    LET both == {k \in DOMAIN st \cap DOMAIN other : DiffKeeps(st[k], other[k])}
        onlyL == DOMAIN st \ DOMAIN other
        onlyR == DOMAIN other \ DOMAIN st
    IN [k \in both \cup onlyL \cup onlyR |->
           IF k \in both THEN DiffPick(st[k], other[k])
           ELSE IF k \in onlyL THEN st[k] ELSE other[k]]

\* What version() hands back in the current state of node n.
VersionNow(n) == IF is_dirty[n] THEN to_string(hash(storage[n])) ELSE version[n]
\* ----------------------------------------------------------------- inputs
Single(k, v, ts, t) == Bytes(TRUE, <<Member(k, v, ts, t)>>)
Pair(m1, m2) == Bytes(TRUE, <<m1, m2>>)

\* Default.ttl when the configuration sets one.
ConfiguredTtl == 2

\* What the clients of the write-side runs send: bytes that are no JSON, and
\* entries for "cat" with equal and with different ts (the newest one with a
\* ttl), and an entry for "dog" whose ts + ttl is beyond u64.
WriteInputs ==
    {NoBytes,
     Single("cat", "garfield", 1, NoTtl), Single("cat", "nyan", 1, NoTtl),
     Single("cat", "nyan", 2, 1), Single("dog", "nyan", 1, U64Max)}

\* ------------------------------------------------------------------- HTTP
\* Body::empty(), and Vec::default(): no bytes at all, which do not decode.
EmptyBody == Bytes(FALSE, <<>>)
\* A body of plain text, such as "not found".
Text(t) == Bytes(FALSE, <<[text |-> t]>>)

\* A response of a handler, or the failure of the exchange (no response).
Response(status, body) == [status |-> status, body |-> body]
NoResponse == [handler |-> "none", node |-> "", req |-> <<>>, res |-> Response(0, EmptyBody)]
Handled(h, n, req, res) == [handler |-> h, node |-> n, req |-> req, res |-> res]

\* The receiver loop between two ticks, and the publisher loop in its delay.
Idle == [stage |-> "idle", version |-> EmptyString, res |-> Response(0, EmptyBody)]
Asleep == [pc |-> "delay", root |-> EmptyBody, payload |-> EmptyBody]

\* K8s.peers before any event.
EmptyPeers == [u \in {} |-> ""]

\* ------------------------------------------------------------------- Init
NoneAccepted == [ts |-> 0 - 1, value |-> ""]

\* Default.data_seeder: none configured, one whose load fails, one whose load
\* returns the bytes b.
NoSeeder == [configured |-> FALSE, ok |-> FALSE, data |-> NoBytes]
FailingSeeder == [configured |-> TRUE, ok |-> FALSE, data |-> NoBytes]
Seeder(b) == [configured |-> TRUE, ok |-> TRUE, data |-> b]

\* State::init is over: the ingest worker and the purge ticker are spawned.
Running == [pc |-> "running", loads |-> 0, seeder |-> NoSeeder]

\* run() with both layers bound and serving, waiting on its first handle.
Serving == [order |-> <<"conn", "agent">>, conn |-> "serving", agent |-> "serving",
            awaiting |-> 1, result |-> "pending"]

\* run() has spawned the two layers and waits on the first handle its
\* iterator yields (which of the two that is, is left to FuturesUnordered).
Spawned ==
    {[order |-> o, conn |-> "spawned", agent |-> "spawned", awaiting |-> 1,
      result |-> "pending"] : o \in {<<"conn", "agent">>, <<"agent", "conn">>}}

\* No tick has sampled yet.
NoSample == [loop |-> "none", snapshot |-> <<>>, r0 |-> 0, picks |-> {}]

\* The threads that call into the store while the ingest worker runs.
Callers == {"c1", "c2"}

\* No guard is held on any of the three locks.
NoGuards == [storage |-> {}, version |-> {}, is_dirty |-> {}]

\* The ingest worker is outside Default::set.
NotMerging == [pc |-> "idle", map |-> EmptyMap, todo |-> {}, dirty |-> FALSE,
               before |-> EmptyMap]

\* A caller that is in no call.
NoCall == [op |-> "none", pc |-> "idle", hash |-> 0]

\* The state at the start of run(): the engine as configured, with State::init
\* still to run where a seeder of `seeders` is given, and over otherwise.
InitNew(ins, ttls, builds, slots, seeders) ==
    /\ bound = slots
    /\ backlog = [n \in Nodes |-> 0]
    /\ resp = NoResponse
    /\ pull = [n \in Nodes |-> Idle]
    /\ push = [n \in Nodes |-> Asleep]
    /\ last_published = [n \in Nodes |-> EmptyBody]
    /\ last_published_version = [n \in Nodes |-> EmptyString]
    /\ peers = EmptyPeers
    /\ events = <<>>
    /\ boot \in [Nodes -> {Running} \cup {[pc |-> "new", loads |-> 0, seeder |-> sd] :
                                            sd \in seeders}]
    /\ boot["n2"] = Running
    /\ seeders # {} => boot["n1"] # Running
    /\ tasks \in IF seeders = {} THEN {Serving} ELSE Spawned
    /\ created = [n \in Nodes |-> {}]
    /\ sampled = NoSample
    /\ locks = [n \in Nodes |-> NoGuards]
    /\ merging = [n \in Nodes |-> NotMerging]
    /\ calls = [n \in Nodes |-> [c \in Callers |-> NoCall]]
    /\ now = 1
    /\ overflow_checks \in builds
    /\ inputs = ins
    /\ ttl \in [Nodes -> ttls \cup {NoTtl}]
    /\ ttl["n2"] = NoTtl
    /\ storage = [n \in Nodes |-> EmptyMap]
    /\ is_dirty = [n \in Nodes |-> FALSE]
    /\ version = [n \in Nodes |-> EmptyString]
    /\ queue = [n \in Nodes |-> <<>>]
    /\ senders = [n \in Nodes |-> <<>>]
    /\ rx_alive = [n \in Nodes |-> boot[n] = Running]
    /\ poisoned = [n \in Nodes |-> FALSE]
    /\ offered = [n \in Nodes |-> [k \in Keys |-> 0 - 1]]
    /\ accepted = [n \in Nodes |-> [k \in Keys |-> NoneAccepted]]
    /\ vlast = [n \in Nodes |-> [called |-> FALSE, ret |-> EmptyString]]
    /\ changed = [n \in Nodes |-> FALSE]
    /\ last_set = [n \in Nodes |-> "none"]
    /\ last_merge = [n \in Nodes |-> "none"]
    /\ ret = NoRet

\* The state once State::init (no seeder) and the binds of run() are over.
InitChannel(ins, ttls, builds, slots) == InitNew(ins, ttls, builds, slots, {})

InitWith(ins, ttls, builds) == InitChannel(ins, ttls, builds, MAX_SET_OPS)

Init == InitWith(WriteInputs, {ConfiguredTtl}, BOOLEAN)

\* ---------------------------------------------------------------- actions
Max2(a, b) == IF a < b THEN b ELSE a

\* The greatest explicit ts the payload b carries for key k, or -1.
RECURSIVE OfferedTs(_, _, _)
OfferedTs(b, k, i) ==
    IF ~b.ok \/ i > Len(b.body) THEN 0 - 1
    ELSE Max2(IF b.body[i].key = k THEN b.body[i].ts ELSE 0 - 1, OfferedTs(b, k, i + 1))

RemoveAt(q, i) == SubSeq(q, 1, i - 1) \o SubSeq(q, i + 1, Len(q))

\* A variant of send that gives up on a full channel, as try_send does.
send_NoWait(q, alive) ==
    IF ~alive THEN "dropped"
    ELSE IF Len(q) < bound THEN "sent" ELSE "dropped"

\* tx.send on the sync_channel: it hands the payload over when there is room,
\* blocks the caller while the channel is full, and fails (set discards the
\* error and the payload) once the receiver is gone.
send(q, alive) ==
    IF ~alive THEN "dropped"
    ELSE IF Len(q) < bound THEN "sent" ELSE "blocked"

\* A variant of the receiving end that takes the payload sent last.
recv_Newest(q) == q[Len(q)]

\* rx.iter(): the next payload of the channel, the one sent first.
recv(q) == Head(q)

\* State::set: as_bytes, then tx.send; Ok(()) whatever send returned.
State_set(n, p) ==
    /\ offered' = [offered EXCEPT ![n] =
                      [k \in Keys |-> Max2(offered[n][k], OfferedTs(p, k, 1))]]
    /\ last_set' = [last_set EXCEPT ![n] = send(queue[n], rx_alive[n])]
    /\ CASE send(queue[n], rx_alive[n]) = "sent" ->
                /\ queue' = [queue EXCEPT ![n] = Append(@, p)]
                /\ UNCHANGED senders
         [] send(queue[n], rx_alive[n]) = "blocked" ->
                /\ Len(senders[n]) < MaxBlocked
                /\ senders' = [senders EXCEPT ![n] = Append(@, p)]
                /\ UNCHANGED queue
         [] OTHER -> UNCHANGED <<queue, senders>>
    /\ UNCHANGED <<now, overflow_checks, inputs, ttl, storage, is_dirty, version,
                   rx_alive, poisoned, accepted, vlast, changed, last_merge, ret,
                   bound, backlog,
                   boot, tasks, created, sampled, locks, merging, calls>>

\* A client of the agent (PUT /) hands a payload of its own to State::set.
SetCall(n, p) ==
    /\ p \in inputs
    /\ State_set(n, p)
    /\ UNCHANGED conn_vars

\* A caller blocked in tx.send is woken: its payload enters the channel once
\* there is room, or send fails because the receiver is gone.
SetResume(n) ==
    /\ senders[n] # <<>>
    /\ send(queue[n], rx_alive[n]) # "blocked"
    /\ \E i \in 1..Len(senders[n]) :
          /\ IF send(queue[n], rx_alive[n]) = "sent"
             THEN queue' = [queue EXCEPT ![n] = Append(@, senders[n][i])]
             ELSE UNCHANGED queue
          /\ senders' = [senders EXCEPT ![n] = RemoveAt(@, i)]
    /\ UNCHANGED <<now, overflow_checks, inputs, ttl, storage, is_dirty, version,
                   rx_alive, poisoned, offered, accepted, vlast, changed,
                   last_set, last_merge, ret,
                   bound, backlog,
                   boot, tasks, created, sampled, locks, merging, calls>>
    /\ UNCHANGED conn_vars

\* History of what the loop of Default::set took in for each key.
AcceptedAfter(acc, map, t) ==
    [k \in Keys |->
        IF k \in Live(map, t) /\ map[k].ts > acc[k].ts
        THEN [ts |-> map[k].ts, value |-> map[k].value]
        ELSE acc[k]]

\* History of what one run of Default::set over `map` did to the storage.
Outcome(st, map, st2, t) ==
    IF \E k \in DOMAIN st : st2[k] # st[k] THEN "replaced"
    ELSE IF DOMAIN st2 # DOMAIN st THEN "inserted"
    ELSE IF Live(map, t) # {} THEN "kept"
    ELSE IF DOMAIN map # {} THEN "skipped"
    ELSE "empty"

\* The entries of a payload that come without a ts: serde fills it with
\* epoch() when the ingest worker decodes them (a repeated key keeps its last
\* member).
Stamped(b, t) ==
    IF ~b.ok THEN {}
    ELSE {[key |-> k, value |-> from_slice(b, t)[k].value, ts |-> t] :
             k \in {x \in DOMAIN from_slice(b, t) :
                       \E i \in 1..Len(b.body) :
                          /\ b.body[i].key = x
                          /\ b.body[i].ts = NoTs
                          /\ \A j \in (i + 1)..Len(b.body) : b.body[j].key # x}}

\* A variant of async_set that merges the entries of an undecodable payload
\* that are well formed.
Worker_KeepsDecoded(n) ==
    /\ rx_alive[n]
    /\ queue[n] # <<>>
    /\ ~recv(queue[n]).ok
    /\ storage' = [storage EXCEPT ![n] =
                      Merged(@, from_slice(Bytes(TRUE, recv(queue[n]).body), now), ttl[n], now)]
    /\ queue' = [queue EXCEPT ![n] = Tail(@)]
    /\ last_merge' = [last_merge EXCEPT ![n] = "undecodable"]
    /\ backlog' = [backlog EXCEPT ![n] = Len(queue[n]) - 1]
    /\ UNCHANGED <<now, overflow_checks, inputs, ttl, is_dirty, version, senders, rx_alive,
                   poisoned, offered, accepted, vlast, changed, last_set, ret, bound,
                   boot, tasks, created, sampled, locks, merging, calls>>
    /\ UNCHANGED conn_vars

\* One iteration of async_set: receive a payload, decode it, and merge it
\* with Default::set. A payload that does not decode is dropped. A panic in
\* the merge (a poisoned lock, or is_expired overflowing in a checked build)
\* ends the thread with the entries visited so far merged, the lock poisoned
\* and the receiver dropped.
Worker(n) ==
    /\ rx_alive[n]
    /\ queue[n] # <<>>
    /\ backlog' = [backlog EXCEPT ![n] = Len(queue[n]) - 1]
    /\ created' = [created EXCEPT ![n] = @ \cup Stamped(recv(queue[n]), now)]
    /\ LET b == recv(queue[n])
           map == from_slice(b, now)
           bad == {k \in DOMAIN map : Panics(map[k])}
       IN IF ~b.ok
          THEN /\ queue' = [queue EXCEPT ![n] = Tail(@)]
               /\ last_merge' = [last_merge EXCEPT ![n] = "undecodable"]
               /\ UNCHANGED <<storage, is_dirty, rx_alive, poisoned, offered, accepted, changed>>
          ELSE /\ offered' = [offered EXCEPT ![n] =
                      [k \in Keys |-> IF k \in DOMAIN map THEN Max2(@[k], map[k].ts) ELSE @[k]]]
               /\ IF poisoned[n]
                  THEN /\ queue' = [queue EXCEPT ![n] = <<>>]
                       /\ rx_alive' = [rx_alive EXCEPT ![n] = FALSE]
                       /\ last_merge' = [last_merge EXCEPT ![n] = "panic"]
                       /\ UNCHANGED <<storage, is_dirty, poisoned, accepted, changed>>
                  ELSE IF bad # {}
                  THEN \E S \in SUBSET (DOMAIN map \ bad) :
                       LET part == Restrict(map, S)
                           st2 == Merged(storage[n], part, ttl[n], now)
                       IN /\ storage' = [storage EXCEPT ![n] = st2]
                          /\ accepted' = [accepted EXCEPT ![n] = AcceptedAfter(@, part, now)]
                          /\ changed' = [changed EXCEPT ![n] =
                                            @ \/ Touched(storage[n], st2) # {}]
                          /\ poisoned' = [poisoned EXCEPT ![n] = TRUE]
                          /\ rx_alive' = [rx_alive EXCEPT ![n] = FALSE]
                          /\ queue' = [queue EXCEPT ![n] = <<>>]
                          /\ last_merge' = [last_merge EXCEPT ![n] = "panic"]
                          /\ UNCHANGED is_dirty
                  ELSE LET st2 == Merged(storage[n], map, ttl[n], now)
                       IN /\ storage' = [storage EXCEPT ![n] = st2]
                          /\ is_dirty' = [is_dirty EXCEPT ![n] = DirtyAfter(map, now)]
                          /\ accepted' = [accepted EXCEPT ![n] = AcceptedAfter(@, map, now)]
                          /\ changed' = [changed EXCEPT ![n] =
                                            @ \/ Touched(storage[n], st2) # {}]
                          /\ queue' = [queue EXCEPT ![n] = Tail(@)]
                          /\ last_merge' = [last_merge EXCEPT ![n] =
                                               Outcome(storage[n], map, st2, now)]
                          /\ UNCHANGED <<rx_alive, poisoned>>
    /\ UNCHANGED <<now, overflow_checks, inputs, ttl, version, senders, vlast, last_set, ret,
                   bound, boot, tasks, sampled, locks, merging, calls>>
    /\ UNCHANGED conn_vars

\* A variant of purge that marks the store dirty when it removes an entry.
Purge_MarksDirty(n) ==
    /\ ~poisoned[n]
    /\ LET st == storage[n]
           dead == {k \in DOMAIN st : is_expired(st[k], now)}
       IN /\ storage' = [storage EXCEPT ![n] = Restrict(st, DOMAIN st \ dead)]
          /\ accepted' = [accepted EXCEPT ![n] =
                             [k \in Keys |-> IF k \in dead THEN NoneAccepted ELSE @[k]]]
          /\ is_dirty' = [is_dirty EXCEPT ![n] = @ \/ dead # {}]
    /\ UNCHANGED <<now, overflow_checks, inputs, ttl, version, queue, senders, poisoned,
                   rx_alive, offered, vlast, changed, last_set, last_merge, ret,
                   bound, backlog, boot, tasks, created, sampled, locks, merging, calls>>
    /\ UNCHANGED conn_vars

\* Default::purge, run by the purge ticker: retain the entries that are not
\* expired. In a checked build an overflowing entry panics the sweep with the
\* entries visited so far removed and the lock poisoned.
Purge(n) ==
    /\ ~poisoned[n]
    /\ LET st == storage[n]
           bad == {k \in DOMAIN st : Panics(st[k])}
           dead == {k \in DOMAIN st \ bad : is_expired(st[k], now)}
       IN IF bad # {}
          THEN \E S \in SUBSET dead :
                  /\ storage' = [storage EXCEPT ![n] = Restrict(st, DOMAIN st \ S)]
                  /\ accepted' = [accepted EXCEPT ![n] =
                                     [k \in Keys |-> IF k \in S THEN NoneAccepted ELSE @[k]]]
                  /\ poisoned' = [poisoned EXCEPT ![n] = TRUE]
          ELSE /\ storage' = [storage EXCEPT ![n] = Restrict(st, DOMAIN st \ dead)]
               /\ accepted' = [accepted EXCEPT ![n] =
                                  [k \in Keys |-> IF k \in dead THEN NoneAccepted ELSE @[k]]]
               /\ UNCHANGED poisoned
    /\ UNCHANGED <<now, overflow_checks, inputs, ttl, is_dirty, version, queue, senders,
                   rx_alive, offered, vlast, changed, last_set, last_merge, ret,
                   bound, backlog,
                   boot, tasks, created, sampled, locks, merging, calls>>
    /\ UNCHANGED conn_vars

\* State::version: recompute the cached string when the dirty flag is set,
\* clear the flag, and return the cached string. (With the lock poisoned and
\* the flag set the call panics and returns nothing.)
State_version(n) ==
    /\ ~(is_dirty[n] /\ poisoned[n])
    /\ version' = [version EXCEPT ![n] = VersionNow(n)]
    /\ is_dirty' = [is_dirty EXCEPT ![n] = FALSE]
    /\ vlast' = [vlast EXCEPT ![n] = [called |-> TRUE, ret |-> VersionNow(n)]]
    /\ changed' = [changed EXCEPT ![n] = FALSE]
    /\ UNCHANGED <<now, overflow_checks, inputs, ttl, storage, queue, senders, rx_alive,
                   poisoned, offered, accepted, last_set, last_merge, ret,
                   bound, backlog,
                   boot, tasks, created, sampled, locks, merging, calls>>

\* A version() call on its own.
Version(n) ==
    /\ State_version(n)
    /\ UNCHANGED conn_vars

\* How a get(k) call ends in the current state: the read lock is poisoned or
\* is_expired overflows in a checked build (panic), or the filtered lookup.
GetStatus(n, k) ==
    IF poisoned[n] \/ (k \in DOMAIN storage[n] /\ Panics(storage[n][k])) THEN "panic"
    ELSE IF get(storage[n], k, now) = EmptyMap THEN "none" ELSE "some"

ReadUnchanged ==
    UNCHANGED <<now, overflow_checks, inputs, ttl, storage, is_dirty, version, queue,
                senders, rx_alive, poisoned, offered, accepted, vlast, changed,
                last_set, last_merge,
                bound, backlog,
                   boot, tasks, created, sampled, locks, merging, calls>>

\* State::get.
Get(n, k) ==
    /\ UNCHANGED conn_vars
    /\ ret' = Ret("get", k, NoBytes, GetStatus(n, k),
                  IF GetStatus(n, k) = "some" THEN get(storage[n], k, now) ELSE EmptyMap)
    /\ ReadUnchanged

\* State::get_root, rendered to bytes by its caller.
GetRoot(n) ==
    /\ UNCHANGED conn_vars
    /\ ret' = IF poisoned[n] THEN Ret("get_root", "", NoBytes, "panic", EmptyMap)
              ELSE Ret("get_root", "", as_bytes(get_root(storage[n])), "some",
                       get_root(storage[n]))
    /\ ReadUnchanged

\* State::diff against the bytes `other`: a client payload, or the bytes
\* get_root has just returned.
Diff(n, other) ==
    /\ other \in inputs \cup {as_bytes(get_root(storage[n]))}
    /\ UNCHANGED conn_vars
    /\ ret' = IF ~other.ok THEN Ret("diff", "", other, "err", EmptyMap)
              ELSE IF poisoned[n] THEN Ret("diff", "", other, "panic", EmptyMap)
              ELSE Ret("diff", IF other = as_bytes(get_root(storage[n])) THEN "root" ELSE "",
                       other, "ok", diff(storage[n], from_slice(other, now)))
    /\ ReadUnchanged

\* The wall clock advances.
Tick ==
    /\ now < MaxNow
    /\ now' = now + 1
    /\ UNCHANGED conn_vars
    /\ UNCHANGED <<overflow_checks, inputs, ttl, storage, is_dirty, version, queue, senders,
                   rx_alive, poisoned, offered, accepted, vlast, changed,
                   last_set, last_merge, ret,
                   bound, backlog,
                   boot, tasks, created, sampled, locks, merging, calls>>

\* The variables of the engine and of init, which run() itself leaves alone.
store_less_tasks ==
    <<now, overflow_checks, inputs, ttl, storage, is_dirty, version, queue, senders,
      rx_alive, poisoned, offered, accepted, vlast, changed, last_set, last_merge, ret,
      bound, backlog, boot, created, sampled, locks, merging, calls>>

\* ------------------------------------------------------------------ init
\* A variant of seed that takes the loaded map as the store, unmerged.
seed_Unmerged(st, sd, dttl, t) ==
    IF sd.ok /\ sd.data.ok THEN from_slice(sd.data, t) ELSE st

\* Default::seed: load, decode, and Default::set of the decoded map; the
\* store is left alone when load or the decoding fails.
seed(st, sd, dttl, t) ==
    IF sd.ok /\ sd.data.ok THEN Merged(st, from_slice(sd.data, t), dttl, t) ELSE st

\* The first half of State::init: with a seeder configured, seed is called
\* and its error logged. A panic of Default::set (is_expired overflowing in a
\* checked build) is not caught: init does not return.
init_seed(n) ==
    /\ boot[n].pc = "new"
    /\ LET sd == boot[n].seeder
           map == IF sd.ok /\ sd.data.ok THEN from_slice(sd.data, now) ELSE EmptyMap
           bad == {k \in DOMAIN map : Panics(map[k])}
       IN IF bad # {}
          THEN \E S \in SUBSET (DOMAIN map \ bad) :
                  /\ storage' = [storage EXCEPT ![n] =
                                    Merged(@, Restrict(map, S), ttl[n], now)]
                  /\ accepted' = [accepted EXCEPT ![n] =
                                     AcceptedAfter(@, Restrict(map, S), now)]
                  /\ poisoned' = [poisoned EXCEPT ![n] = TRUE]
                  /\ boot' = [boot EXCEPT ![n] = [@ EXCEPT !.pc = "panicked", !.loads = @ + 1]]
                  /\ UNCHANGED is_dirty
          ELSE /\ storage' = [storage EXCEPT ![n] = seed(@, sd, ttl[n], now)]
               /\ accepted' = [accepted EXCEPT ![n] = AcceptedAfter(@, map, now)]
               /\ is_dirty' = [is_dirty EXCEPT ![n] =
                                  IF sd.ok /\ sd.data.ok THEN DirtyAfter(map, now) ELSE @]
               /\ boot' = [boot EXCEPT ![n] =
                              [@ EXCEPT !.pc = "seeded",
                                        !.loads = IF sd.configured THEN @ + 1 ELSE @]]
               /\ UNCHANGED poisoned
    /\ created' = [created EXCEPT ![n] =
                      @ \cup (IF boot[n].seeder.ok THEN Stamped(boot[n].seeder.data, now)
                               ELSE {})]
    /\ changed' = [changed EXCEPT ![n] = @ \/ storage'[n] # storage[n]]
    /\ UNCHANGED <<now, overflow_checks, inputs, ttl, version, queue, senders, rx_alive,
                   offered, vlast, last_set, last_merge, ret, bound, backlog, tasks,
                   sampled, locks, merging, calls>>
    /\ UNCHANGED conn_vars

\* The second half of State::init: the channel is created, async_set and the
\* purge ticker are spawned.
init_spawn(n) ==
    /\ boot[n].pc = "seeded"
    /\ boot' = [boot EXCEPT ![n] = [@ EXCEPT !.pc = "running"]]
    /\ rx_alive' = [rx_alive EXCEPT ![n] = TRUE]
    /\ UNCHANGED <<now, overflow_checks, inputs, ttl, storage, is_dirty, version, queue,
                   senders, poisoned, offered, accepted, vlast, changed, last_set,
                   last_merge, ret, bound, backlog, tasks, created, sampled, locks, merging, calls>>
    /\ UNCHANGED conn_vars

\* -------------------------------------------------------------------- run
\* The server of a layer binds its port (try_bind): it serves, or its task
\* returns the error.
bind(layer, ok) ==
    /\ tasks[layer] = "spawned"
    /\ tasks' = [tasks EXCEPT ![layer] = IF ok THEN "serving" ELSE "failed"]
    /\ UNCHANGED store_less_tasks
    /\ UNCHANGED conn_vars

\* The loop of run(): the handle it awaits has completed with an error, and
\* run returns it. (A task that serves never completes.)
run_await ==
    /\ tasks.result = "pending"
    /\ tasks.awaiting <= Len(tasks.order)
    /\ tasks[tasks.order[tasks.awaiting]] = "failed"
    /\ tasks' = [tasks EXCEPT !.result = "err"]
    /\ UNCHANGED store_less_tasks
    /\ UNCHANGED conn_vars

\* ------------------------------------------------- connection and agent
\* The variables of the state engine, with its history.
store_vars ==
    <<now, overflow_checks, inputs, ttl, storage, is_dirty, version, queue, senders,
      rx_alive, poisoned, offered, accepted, vlast, changed, last_set, last_merge, ret,
      bound, backlog,
                   boot, tasks, created, sampled, locks, merging, calls>>

\* The exchange ended without a response: a transport error, a timeout, or a
\* handler that panicked.
Failed == Response(0, EmptyBody)

\* A variant of the test of get_handler that answers with the root when the
\* versions are equal.
versions_match_Equal(v, mine) == v = EmptyString \/ v = mine

\* The test of the connection's get_handler (its result is true when the
\* root is to be sent): the trailing segment is empty or differs from
\* state.version().
versions_match(v, mine) == v = EmptyString \/ v # mine

\* The response of the connection's get_handler to GET /<v>: 200 with the
\* bytes of get_root, or 204 with no body; none when version() or get_root
\* panics on the poisoned lock.
get_response(n, v) ==
    IF is_dirty[n] /\ poisoned[n] THEN Failed
    ELSE IF versions_match(v, VersionNow(n))
         THEN IF poisoned[n] THEN Failed
              ELSE Response(200, as_bytes(get_root(storage[n])))
         ELSE Response(204, EmptyBody)

\* get_handler of the connection server, with the version() call it makes.
get_handler(n, v) ==
    /\ IF is_dirty[n] /\ poisoned[n] THEN UNCHANGED store_vars ELSE State_version(n)
    /\ resp' = Handled("get_handler", n, v, get_response(n, v))
    /\ UNCHANGED <<push, last_published, last_published_version, peers, events>>

\* set_handler of the connection server and of the agent: state.set, then
\* 204 for Ok and 422 otherwise. The response is written once set returns;
\* while the caller is blocked on the full channel there is none yet.
set_response(result) ==
    IF result = "ok" THEN Response(204, EmptyBody) ELSE Response(422, Text("malformed input"))

set_handler(n, body) ==
    /\ State_set(n, body)
    /\ resp' = IF send(queue[n], rx_alive[n]) = "blocked" THEN resp
               ELSE Handled("set_handler", n, body, set_response("ok"))
    /\ UNCHANGED <<push, last_published, last_published_version, peers, events>>

\* as_bytes of one Value: the JSON of the entry alone, which is no object
\* key -> entry.
value_as_bytes(e) == Bytes(FALSE, <<e>>)

\* The response of the agent's get_handler to GET /<k>.
agent_get_response(n, k) ==
    IF GetStatus(n, k) = "panic" THEN Failed
    ELSE IF GetStatus(n, k) = "some"
         THEN Response(200, value_as_bytes(get(storage[n], k, now)[k]))
         ELSE Response(404, Text("not found"))

\* get_handler of the agent.
agent_get_handler(n, k) ==
    /\ resp' = Handled("agent_get_handler", n, k, agent_get_response(n, k))
    /\ UNCHANGED store_vars
    /\ UNCHANGED <<push, last_published, last_published_version, peers, events>>

\* HTTP clients of the two servers of a node.
ConnGet(n, v) == get_handler(n, v) /\ UNCHANGED pull
ConnPut(n, body) == body \in inputs /\ set_handler(n, body) /\ UNCHANGED pull
AgentGet(n, k) == agent_get_handler(n, k) /\ UNCHANGED pull

\* The versions an HTTP client may name: none, the one cached, the one of
\* the current content, and one of no content.
AskedVersions(n) == {EmptyString, version[n], to_string(hash(storage[n])), to_string(0)}

\* --------------------------------------------------------------- receiver
\* The one peer of a node.
Peer(n) == CHOOSE m \in Nodes : m # n

IsEmptyBody(b) == ~b.ok /\ Len(b.body) = 0

\* The receiver builds the URL of its GET with state.version() and sends it.
receiver_request(n) ==
    /\ pull[n].stage = "idle"
    /\ State_version(n)
    /\ pull' = [pull EXCEPT ![n] =
                   [stage |-> "sent", version |-> VersionNow(n), res |-> Failed]]
    /\ UNCHANGED <<resp, push, last_published, last_published_version, peers, events>>

\* The connection server of the peer answers the GET.
receiver_served(n) ==
    /\ pull[n].stage = "sent"
    /\ get_handler(Peer(n), pull[n].version)
    /\ pull' = [pull EXCEPT ![n] =
                   [@ EXCEPT !.stage = "answered",
                             !.res = get_response(Peer(n), pull[n].version)]]

\* The response of the agent's get_handler to GET /<v> for a version v: the
\* decimal digits are the name of no key, so state.get returns None.
agent_miss_response(n) ==
    IF poisoned[n] THEN Failed ELSE Response(404, Text("not found"))

\* The GET reaches the agent's port of the peer (the target port is a matter
\* of configuration), which looks the segment up as a key.
receiver_served_by_agent(n) ==
    /\ pull[n].stage = "sent"
    /\ resp' = Handled("agent_get_handler", Peer(n), pull[n].version,
                       agent_miss_response(Peer(n)))
    /\ pull' = [pull EXCEPT ![n] =
                   [@ EXCEPT !.stage = "answered", !.res = agent_miss_response(Peer(n))]]
    /\ UNCHANGED store_vars
    /\ UNCHANGED <<push, last_published, last_published_version, peers, events>>

\* The GET fails: no connection, or a timeout.
receiver_failed(n) ==
    /\ pull[n].stage = "sent"
    /\ pull' = [pull EXCEPT ![n] = [@ EXCEPT !.stage = "answered", !.res = Failed]]
    /\ UNCHANGED store_vars
    /\ UNCHANGED <<resp, push, last_published, last_published_version, peers, events>>

\* The receiver goes over the results: `if let Ok(Ok(result))` hands the
\* bytes of every response it got to state.set, then the loop sleeps.
receiver_collect(n) ==
    /\ pull[n].stage = "answered"
    /\ IF pull[n].res.status # 0
       THEN State_set(n, pull[n].res.body)
       ELSE UNCHANGED store_vars
    /\ pull' = [pull EXCEPT ![n] = Idle]
    /\ UNCHANGED <<resp, push, last_published, last_published_version, peers, events>>

\* -------------------------------------------------------------- publisher
\* The frame of a publisher step that touches the store through version()
\* only, or not at all.
PublisherKeeps == UNCHANGED <<resp, pull, peers, events>>

\* The head of the loop: with last_published_version equal to
\* state.version() the publisher sleeps, otherwise it goes on to the snapshot.
publisher_check(n) ==
    /\ push[n].pc = "delay"
    /\ State_version(n)
    /\ push' = [push EXCEPT ![n] =
                   IF last_published_version[n] = VersionNow(n) THEN Asleep
                   ELSE [Asleep EXCEPT !.pc = "root"]]
    /\ UNCHANGED <<last_published, last_published_version>>
    /\ PublisherKeeps

\* A variant of the root step that goes on to the diff whatever the root is.
publisher_root_NoSkip(n) ==
    /\ push[n].pc = "root"
    /\ ~poisoned[n]
    /\ push' = [push EXCEPT ![n] =
                   [pc |-> "diff", root |-> as_bytes(get_root(storage[n])),
                    payload |-> EmptyBody]]
    /\ UNCHANGED store_vars
    /\ UNCHANGED <<last_published, last_published_version>>
    /\ PublisherKeeps

\* In spawn_blocking: the bytes of get_root; equal to last_published, the tick
\* ends here.
publisher_root(n) ==
    /\ push[n].pc = "root"
    /\ ~poisoned[n]
    /\ push' = [push EXCEPT ![n] =
                   IF as_bytes(get_root(storage[n])) = last_published[n] THEN Asleep
                   ELSE [pc |-> "diff", root |-> as_bytes(get_root(storage[n])),
                         payload |-> EmptyBody]]
    /\ UNCHANGED store_vars
    /\ UNCHANGED <<last_published, last_published_version>>
    /\ PublisherKeeps

\* A variant of state_to_publish that sends nothing when diff fails.
state_to_publish_NoFallback(st, last, root) ==
    IF ~last.ok THEN EmptyBody ELSE as_bytes(diff(st, from_slice(last, now)))

\* state_to_publish: the bytes of state.diff(&last), or the root when diff
\* fails because last does not decode.
state_to_publish(st, last, root) ==
    IF ~last.ok THEN root ELSE as_bytes(diff(st, from_slice(last, now)))

\* In spawn_blocking, after the root: the payload, from a second read of the
\* store.
publisher_diff(n) ==
    /\ push[n].pc = "diff"
    /\ ~poisoned[n]
    /\ push' = [push EXCEPT ![n] =
                   [@ EXCEPT !.pc = "stamp",
                             !.payload = state_to_publish(storage[n], last_published[n],
                                                          push[n].root)]]
    /\ UNCHANGED store_vars
    /\ UNCHANGED <<last_published, last_published_version>>
    /\ PublisherKeeps

\* last_published = root; last_published_version = state.version().
publisher_stamp(n) ==
    /\ push[n].pc = "stamp"
    /\ State_version(n)
    /\ last_published' = [last_published EXCEPT ![n] = push[n].root]
    /\ last_published_version' = [last_published_version EXCEPT ![n] = VersionNow(n)]
    /\ push' = [push EXCEPT ![n] = [@ EXCEPT !.pc = "send"]]
    /\ PublisherKeeps

\* The PUT reaches the connection server of the peer, whose set_handler takes
\* the payload; then the publisher sleeps.
publisher_send(n) ==
    /\ push[n].pc = "send"
    /\ State_set(Peer(n), push[n].payload)
    /\ resp' = IF send(queue[Peer(n)], rx_alive[Peer(n)]) = "blocked" THEN resp
               ELSE Handled("set_handler", Peer(n), push[n].payload, set_response("ok"))
    /\ push' = [push EXCEPT ![n] = [@ EXCEPT !.pc = "delay"]]
    /\ UNCHANGED <<pull, last_published, last_published_version, peers, events>>

\* The PUT fails or times out, or no peer was sampled: a warning, then the
\* publisher sleeps.
publisher_send_failed(n) ==
    /\ push[n].pc = "send"
    /\ push' = [push EXCEPT ![n] = [@ EXCEPT !.pc = "delay"]]
    /\ UNCHANGED store_vars
    /\ UNCHANGED <<last_published, last_published_version>>
    /\ PublisherKeeps

\* ---------------------------------------------------------- peer provider
\* Pod uids, and what status.podIP may hold: IPv4 addresses, an address that
\* is not IPv4, and nothing.
Uids == {"u1", "u2"}
Ipv4 == {"10.0.0.1", "10.0.0.2"}
PodIps == Ipv4 \cup {"fe80::1", ""}

\* A watch event with the pod it carries.
WatchEvent(kind, uid, ip) == [kind |-> kind, uid |-> uid, pod_ip |-> ip]
WatchEvents ==
    {WatchEvent(kind, u, ip) : kind \in {"ADDED", "MODIFIED", "DELETED"}, u \in Uids,
                                ip \in PodIps}
        \cup {WatchEvent("BOOKMARK", "", ""), WatchEvent("ERROR", "", "")}

\* K8s::ip: status.podIP parsed as a Peer (an IPv4 address), if it parses.
NoPeer == [kind |-> "None", ip |-> ""]
ip(pod_ip) == IF pod_ip \in Ipv4 THEN [kind |-> "Ipv4Addr", ip |-> pod_ip] ELSE NoPeer

\* A variant of insert that keeps the address a uid already has.
insert_IfAbsent(ps, uid, peer) ==
    [u \in DOMAIN ps \cup {uid} |-> IF u \in DOMAIN ps THEN ps[u] ELSE peer]

\* HashMap::insert and HashMap::remove on the peer map.
insert(ps, uid, peer) == [u \in DOMAIN ps \cup {uid} |-> IF u = uid THEN peer ELSE ps[u]]
remove(ps, uid) == [u \in DOMAIN ps \ {uid} |-> ps[u]]

\* One turn of the watch loop of K8s::init on the event e.
watch(e) ==
    /\ events' = Append(events, e)
    /\ peers' = IF e.kind \in {"ADDED", "MODIFIED"}
                THEN IF ip(e.pod_ip) # NoPeer THEN insert(peers, e.uid, ip(e.pod_ip))
                     ELSE peers
                ELSE IF e.kind = "DELETED" THEN remove(peers, e.uid)
                ELSE peers
    /\ UNCHANGED store_vars
    /\ UNCHANGED <<resp, pull, push, last_published, last_published_version>>

\* K8s::get: the values of the map, in the order of its iteration.
UidOrder == <<"u1", "u2">>
RECURSIVE Values_of(_, _)
Values_of(ps, i) ==
    IF i > Len(UidOrder) THEN <<>>
    ELSE IF UidOrder[i] \in DOMAIN ps THEN <<ps[UidOrder[i]]>> \o Values_of(ps, i + 1)
    ELSE Values_of(ps, i + 1)
K8s_get(ps) == Values_of(ps, 1)

\* --------------------------------------------------------------- sampling
\* Sample::sample(n) on the snapshot: choose_multiple keeps n of its elements,
\* or all of them when there are fewer, each position at most once; which
\* ones is left to the random generator.
Min2(a, b) == IF a < b THEN a ELSE b
sample(snapshot, n) ==
    {S \in SUBSET (1..Len(snapshot)) : Cardinality(S) = Min2(n, Len(snapshot))}

\* The peers a tick contacts: one request per sampled element.
Contacted(sm) == [i \in sm.picks |-> sm.snapshot[i]]

\* The head of a tick of the receiver, and of a publishing tick: the
\* snapshot of peer_provider.get() and its sample of r0.
take_sample(loop, r0) ==
    /\ \E S \in sample(K8s_get(peers), r0) :
          sampled' = [loop |-> loop, snapshot |-> K8s_get(peers), r0 |-> r0, picks |-> S]
    /\ UNCHANGED <<now, overflow_checks, inputs, ttl, storage, is_dirty, version, queue,
                   senders, rx_alive, poisoned, offered, accepted, vlast, changed,
                   last_set, last_merge, ret, bound, backlog, boot, tasks, created,
                   locks, merging, calls>>
    /\ UNCHANGED conn_vars
receiver_sample(r0) == take_sample("receiver", r0)
publisher_sample(r0) == take_sample("publisher", r0)

\* ---------------------------------------------------------- specifications
\* The write side of one node: clients call set, the ingest worker merges,
\* the purge ticker sweeps.
Next ==
    \/ Tick
    \/ \E p \in inputs : SetCall("n1", p)
    \/ SetResume("n1")
    \/ Worker("n1")
    \/ Purge("n1")

Spec == Init /\ [][Next]_vars
\* ------------------------------------------------------------ write side
Drained(n) == queue[n] = <<>> /\ senders[n] = <<>>

\* C1 as stated, for the key "cat" (whose offered entries stay inside u64) and
\* a running worker: once the ingest queue has drained, the key is stored
\* with the greatest ts that was offered for it.
C1_StoredIsMaxOffered ==
    \A k \in {"cat"} :
        (Drained("n1") /\ rx_alive["n1"] /\ offered["n1"][k] >= 0)
            => (k \in DOMAIN storage["n1"] /\ storage["n1"][k].ts = offered["n1"][k])

\* C1 as amended: the stored entry of a key always carries the greatest ts
\* among the entries the ingest worker merged for it without skipping them as
\* expired since the key was last absent from the store, with the value of
\* the first entry merged with that ts; get(k) returns that entry while it is
\* not expired. A key with no such entry is not stored.
C1_StoredIsMaxAccepted ==
    \A k \in Keys :
        /\ k \in DOMAIN storage["n1"]
              => /\ storage["n1"][k].ts = accepted["n1"][k].ts
                 /\ storage["n1"][k].value = accepted["n1"][k].value
        /\ k \notin DOMAIN storage["n1"] => accepted["n1"][k] = NoneAccepted
        /\ get(storage["n1"], k, now) # EmptyMap
              => get(storage["n1"], k, now)[k].ts = accepted["n1"][k].ts

\* The queue has drained, ts 1 and ts 2 were both offered for "cat", the
\* entry with ts 2 was not taken in, and the entry with ts 1 is stored.
C1_Witness ==
    /\ Drained("n1")
    /\ rx_alive["n1"]
    /\ offered["n1"]["cat"] = 2
    /\ "cat" \in DOMAIN storage["n1"]
    /\ storage["n1"]["cat"].ts = 1
    /\ accepted["n1"]["cat"].ts = 1

\* A step in which async_set takes the payload at the head of the channel.
MergeStep(n) ==
    /\ rx_alive[n]
    /\ queue[n] # <<>>
    /\ queue'[n] = Tail(queue[n]) \/ ~rx_alive'[n]

\* C2: in every merge step a stored entry stays stored, and it changes only
\* by becoming the incoming entry of its key (with the default ttl filled in)
\* when that entry has a strictly greater ts; an incoming entry with an equal
\* or lower ts leaves it as it is.
C2_ReplacedOnlyByNewer ==
    [][\A k \in DOMAIN storage["n1"] :
          MergeStep("n1") =>
             LET b == Head(queue["n1"])
                 map == from_slice(b, now)
                 old == storage["n1"][k]
             IN /\ k \in DOMAIN storage'["n1"]
                /\ storage'["n1"][k] # old
                      => /\ b.ok
                         /\ k \in DOMAIN map
                         /\ map[k].ts > old.ts
                         /\ storage'["n1"][k] = WithDefaultTtl(map[k], ttl["n1"])
                /\ (b.ok /\ k \in DOMAIN map /\ map[k].ts <= old.ts)
                      => storage'["n1"][k] = old]_vars

\* The last merge met a live entry for a stored key and left the store as
\* it was: "cat" is still garfield at ts 1.
C2_Witness ==
    /\ last_merge["n1"] = "kept"
    /\ "cat" \in DOMAIN storage["n1"]
    /\ storage["n1"]["cat"].value = "garfield"
    /\ storage["n1"]["cat"].ts = 1

VersionInputs ==
    {EmptyObject, Single("cat", "garfield", 1, NoTtl), Single("cat", "nyan", 2, 1),
     Single("dog", "nyan", 1, NoTtl)}

InitVersion == InitWith(VersionInputs, {ConfiguredTtl}, {FALSE})

NextVersion ==
    \/ Next
    \/ Version("n1")

SpecVersion == InitVersion /\ [][NextVersion]_vars

\* C6: a version() call that follows a merge which inserted or replaced an
\* entry returns a string different from the one the previous call returned.
C6_ChangeChangesVersion ==
    [][(vlast["n1"].called /\ changed["n1"] /\ ~changed'["n1"])
          => vlast'["n1"].ret # vlast["n1"].ret]_vars

\* C7: a version() call returns what the previous call returned when no merge
\* has inserted or replaced an entry in between.
C7_StableWithoutMutation ==
    [][(vlast["n1"].called /\ ~changed["n1"])
          => vlast'["n1"].ret = vlast["n1"].ret]_vars

\* Two stores, each with its own clients, worker and purge ticker.
TwoInputs == {EmptyObject, Single("cat", "nyan", 2, 1)}

InitTwo == InitWith(TwoInputs, {}, {FALSE})

NextTwo ==
    \/ Tick
    \/ \E n \in Nodes :
          \/ \E p \in inputs : SetCall(n, p)
          \/ SetResume(n)
          \/ Worker(n)
          \/ Purge(n)
          \/ Version(n)

SpecTwo == InitTwo /\ [][NextTwo]_vars

\* An entry is expired once now > ts + ttl (in unbounded arithmetic).
ExpiredAt(e, t) == e.ttl # NoTtl /\ t > e.ts + e.ttl
NonExpiredPairs(n) ==
    {<<k, storage[n][k].ts>> : k \in {x \in DOMAIN storage[n] : ~ExpiredAt(storage[n][x], now)}}

\* C5: two stores whose non-expired entries have the same (key, ts) pairs
\* return the same version string.
C5_SamePairsSameVersion ==
    NonExpiredPairs("n1") = NonExpiredPairs("n2") => VersionNow("n1") = VersionNow("n2")

\* -------------------------------------------------------------- read side
\* Clients that also read: entries with and without ttl, one of them with a
\* ts at the top of u64 (the engine's default ttl takes it beyond u64).
ReadInputs ==
    {Single("cat", "garfield", 1, NoTtl), Single("cat", "nyan", 2, 1),
     Single("dog", "nyan", U64Max, NoTtl)}

InitRead == InitWith(ReadInputs, {ConfiguredTtl}, BOOLEAN)

NextRead ==
    \/ Next
    \/ \E k \in Keys : Get("n1", k)
    \/ GetRoot("n1")

SpecRead == InitRead /\ [][NextRead]_vars

\* Clients that also ask for the difference to a payload of theirs, or to the
\* bytes of the root.
DiffInputs ==
    {NoBytes, Single("cat", "garfield", 1, NoTtl), Single("cat", "nyan", 2, 1),
     Single("dog", "nyan", 1, NoTtl)}

InitDiff == InitWith(DiffInputs, {}, {FALSE})

NextDiff ==
    \/ Next
    \/ \E other \in inputs \cup {as_bytes(get_root(storage["n1"]))} : Diff("n1", other)

SpecDiff == InitDiff /\ [][NextDiff]_vars

\* C3: get(k) returns the stored entry of k while now <= ts + ttl and none
\* once now > ts + ttl.
C3_GetUntilExpiry ==
    \A k \in DOMAIN storage["n1"] :
        storage["n1"][k].ttl # NoTtl
            => (GetStatus("n1", k) = "some" <=> ~ExpiredAt(storage["n1"][k], now))

\* C4: get_root() returns exactly the entries of the store that are not
\* expired at the time of the call.
C4_RootIsNonExpired ==
    ~poisoned["n1"]
        => get_root(storage["n1"]) =
              Restrict(storage["n1"],
                       {k \in DOMAIN storage["n1"] : ~ExpiredAt(storage["n1"][k], now)})

\* C8: diff of a store against the bytes of its own get_root() is the empty
\* map, in every state and in every such call made.
C8_DiffOfRootIsEmpty ==
    /\ diff(storage["n1"], from_slice(as_bytes(get_root(storage["n1"])), now)) = EmptyMap
    /\ (ret.op = "diff" /\ ret.key = "root" /\ ret.status = "ok") => ret.map = EmptyMap

\* diff was called with the bytes of a root of two entries and returned the
\* empty map.
C8_Witness ==
    /\ ret.op = "diff"
    /\ ret.key = "root"
    /\ ret.status = "ok"
    /\ Len(ret.other.body) = 2
    /\ ret.map = EmptyMap

FifoInputs ==
    {NoBytes, Garbled, Single("cat", "garfield", 1, NoTtl), Single("cat", "nyan", 1, NoTtl),
     Single("cat", "nyan", 2, NoTtl)}

InitFifo == InitChannel(FifoInputs, {}, {FALSE}, FifoSlots)

SpecFifo == InitFifo /\ [][Next]_vars

\* C11: a payload enters the channel behind the payloads already pending, and
\* every step of the ingest worker takes the payload that entered first and
\* merges it whole, leaving the later ones pending in their order: the merge
\* of a payload is over before the merge of any payload enqueued after it
\* begins.
C11_MergedInChannelOrder ==
    [][/\ Len(queue'["n1"]) > Len(queue["n1"])
            => \E p \in inputs : queue'["n1"] = Append(queue["n1"], p)
       /\ MergeStep("n1")
            => LET b == Head(queue["n1"])
               IN /\ queue'["n1"] = Tail(queue["n1"])
                  /\ storage'["n1"] =
                        IF b.ok
                        THEN Merged(storage["n1"], from_slice(b, now), ttl["n1"], now)
                        ELSE storage["n1"]]_vars

\* Two payloads were pending, garfield at ts 1 ahead of nyan at ts 1: the
\* worker has merged garfield and nyan is still pending behind it.
C11_Witness ==
    /\ backlog["n1"] = 1
    /\ last_merge["n1"] = "inserted"
    /\ queue["n1"] = <<Single("cat", "nyan", 1, NoTtl)>>
    /\ "cat" \in DOMAIN storage["n1"]
    /\ storage["n1"]["cat"].value = "garfield"

\* C12: merging two payloads into the store in either order gives the same
\* store, and merging a payload twice gives the same store as merging it
\* once, for every store reached and every two payloads a client can send.
C12_MergeCommutesAndIsIdempotent ==
    \A p1, p2 \in {b \in inputs : b.ok} :
        LET st == storage["n1"]
            m1 == from_slice(p1, now)
            m2 == from_slice(p2, now)
            then(a, b) == Merged(Merged(st, a, ttl["n1"], now), b, ttl["n1"], now)
        IN /\ then(m1, m2) = then(m2, m1)
           /\ then(m1, m1) = Merged(st, m1, ttl["n1"], now)

\* C13: a purge sweep leaves in the store exactly the entries that were not
\* expired (now > ts + ttl) when it ran, each as it was.
C13_PurgeKeepsExactlyNonExpired ==
    [][Purge("n1")
          => storage'["n1"] =
                Restrict(storage["n1"],
                         {k \in DOMAIN storage["n1"] : ~ExpiredAt(storage["n1"][k], now)})]_vars

\* ------------------------------------------------------------ HTTP servers
\* One node with HTTP clients that PUT to its connection server and GET from
\* its agent: bodies that are no JSON, an entry with a ttl, and one with a ts
\* at the top of u64.
ServerInputs ==
    {NoBytes, Single("cat", "nyan", 2, 1), Single("dog", "nyan", U64Max, NoTtl)}

InitServer == InitWith(ServerInputs, {ConfiguredTtl}, BOOLEAN)

NextServer ==
    \/ Next
    \/ \E body \in inputs : ConnPut("n1", body)
    \/ \E k \in Keys : AgentGet("n1", k)

SpecServer == InitServer /\ [][NextServer]_vars

\* C15: PUT / on the connection server answers 204 to a body that is a JSON
\* object key -> entry, and 422 to a body that is not.
C15_PutStatusByBody ==
    resp.handler = "set_handler"
        => resp.res.status = (IF resp.req.ok THEN 204 ELSE 422)

\* C16: GET /<key> on the agent answers 200 with the bytes of the entry when
\* the key is stored and not expired (now <= ts + ttl), and 404 otherwise.
C16_AgentGetByPresence ==
    [][\A k \in Keys :
          AgentGet("n1", k)
             => resp'.res =
                   IF k \in DOMAIN storage["n1"] /\ ~ExpiredAt(storage["n1"][k], now)
                   THEN Response(200, value_as_bytes(storage["n1"][k]))
                   ELSE Response(404, Text("not found"))]_vars

\* ------------------------------------------------------------------ pulls
\* Two nodes: n2 has clients of its own, and the receiver of n1 pulls from n2.
PullInputs == {Single("cat", "garfield", 1, NoTtl), Single("dog", "nyan", 1, NoTtl)}

InitPull == InitWith(PullInputs, {}, {FALSE})

NextPull ==
    \/ \E p \in inputs : SetCall("n2", p)
    \/ \E n \in Nodes :
          \/ SetResume(n)
          \/ Worker(n)
          \/ Purge(n)
    \/ receiver_request("n1")
    \/ receiver_served("n1")
    \/ receiver_served_by_agent("n1")
    \/ receiver_failed("n1")
    \/ receiver_collect("n1")

SpecPull == InitPull /\ [][NextPull]_vars

\* C14: the connection server answers GET /<version> with 204 and no body
\* exactly when <version> is not empty and equals what its state.version()
\* returns, and with 200 and the bytes of get_root otherwise; and the body of
\* a 204, once handed to the puller's ingest worker, changes nothing in the
\* puller's store, dirty flag and version.
C14_NoContentOnSameVersion ==
    [][/\ receiver_served("n1")
            => pull'["n1"].res =
                  IF pull["n1"].version # EmptyString /\ pull["n1"].version = version'["n2"]
                  THEN Response(204, EmptyBody)
                  ELSE Response(200, as_bytes(get_root(storage["n2"])))
       /\ (MergeStep("n1") /\ IsEmptyBody(Head(queue["n1"])))
            => /\ storage'["n1"] = storage["n1"]
               /\ is_dirty'["n1"] = is_dirty["n1"]
               /\ version'["n1"] = version["n1"]]_vars

\* The last GET was answered 204, the puller's worker has dropped the empty
\* body, and both nodes hold the same entries.
C14_Witness ==
    /\ resp.handler = "get_handler"
    /\ resp.res.status = 204
    /\ pull["n1"].stage = "idle"
    /\ last_merge["n1"] = "undecodable"
    /\ storage["n1"] # EmptyMap
    /\ storage["n1"] = storage["n2"]

\* C19: the receiver calls state.set with a response only when the response
\* is a 2xx with a body that is not empty.
C19_SetOnlyOnFullSuccess ==
    [][(/\ receiver_collect("n1")
        /\ \/ queue'["n1"] # queue["n1"]
           \/ senders'["n1"] # senders["n1"])
          => /\ pull["n1"].res.status \in 200..299
             /\ ~IsEmptyBody(pull["n1"].res.body)]_vars

\* ----------------------------------------------------------------- pushes
\* Node n1 has clients and publishes to n2: an entry for "cat", a newer one,
\* and an entry for "dog".
PushInputs ==
    {Single("cat", "garfield", 1, NoTtl), Single("cat", "nyan", 2, NoTtl),
     Single("dog", "nyan", 1, NoTtl)}

InitPush == InitWith(PushInputs, {}, {FALSE})

NextPush ==
    \/ \E p \in inputs : SetCall("n1", p)
    \/ \E n \in Nodes :
          \/ SetResume(n)
          \/ Worker(n)
          \/ Purge(n)
    \/ publisher_check("n1")
    \/ publisher_root("n1")
    \/ publisher_diff("n1")
    \/ publisher_stamp("n1")
    \/ publisher_send("n1")
    \/ publisher_send_failed("n1")

SpecPush == InitPush /\ [][NextPush]_vars

\* C18: in a publishing tick after the first (last_published decodes), the
\* payload holds the current entry of every key inserted or replaced since
\* the root of the previous publish was taken, and no other key.
C18_PayloadIsWhatChanged ==
    [][(publisher_diff("n1") /\ last_published["n1"].ok)
          => LET st == storage["n1"]
                 last == from_slice(last_published["n1"], now)
                 news == {k \in DOMAIN st : k \notin DOMAIN last \/ st[k] # last[k]}
             IN push'["n1"].payload = as_bytes(Restrict(st, news))]_vars

\* ----------------------------------------------------------------- gossip
\* Two nodes that publish to and pull from each other over a reliable
\* network. The client of each node writes one payload and then stays quiet;
\* the two payloads on offer tie on the ts of "cat".
GossipInputs == {Single("cat", "garfield", 1, NoTtl), Single("cat", "nyan", 1, NoTtl)}

InitGossip == InitWith(GossipInputs, {}, {FALSE})

\* The one write of the client of node n.
ClientWrite(n, p) ==
    /\ \A k \in Keys : offered[n][k] < 0
    /\ SetCall(n, p)

\* No tick of a loop is in progress and no payload is pending.
Quiet ==
    \A n \in Nodes :
        /\ pull[n].stage = "idle"
        /\ push[n].pc = "delay"
        /\ queue[n] = <<>>
        /\ senders[n] = <<>>

\* The runs looked at are those in which the loops take turns: a client
\* writes, a receiver or a publisher starts its tick, when the tick before and
\* the merges it caused are over. (The channel then never holds more than one
\* payload, and no caller of set is ever blocked.)
ReceiverTick(n) == Quiet /\ receiver_request(n)
PublisherTick(n) == Quiet /\ publisher_check(n)

NextGossip ==
    \E n \in Nodes :
        \/ \E p \in inputs : Quiet /\ ClientWrite(n, p)
        \/ ReceiverTick(n)
        \/ PublisherTick(n)
        \/ Worker(n)
        \/ Purge(n)
        \/ receiver_served(n)
        \/ receiver_collect(n)
        \/ publisher_root(n)
        \/ publisher_diff(n)
        \/ publisher_stamp(n)
        \/ publisher_send(n)

\* Every loop of a node keeps running: the receiver and the publisher start
\* a tick again and again (their intervals), and a tick that has started and
\* the ingest worker run to their end.
FairGossip ==
    \A n \in Nodes :
        /\ SF_vars(ReceiverTick(n))
        /\ SF_vars(PublisherTick(n))
        /\ WF_vars(Worker(n))
        /\ WF_vars(receiver_served(n))
        /\ WF_vars(receiver_collect(n))
        /\ WF_vars(publisher_root(n))
        /\ WF_vars(publisher_diff(n))
        /\ WF_vars(publisher_stamp(n))
        /\ WF_vars(publisher_send(n))

SpecGossip == InitGossip /\ [][NextGossip]_vars /\ FairGossip

\* C17: eventually, and from then on, both nodes return the same root.
C17_EventuallyConsistent ==
    <>[](get_root(storage["n1"]) = get_root(storage["n2"]))

\* ---------------------------------------------------------- watch events
\* The watch loop handles at most this many events in a run.
MaxEvents == 3

InitK8s == InitWith({NoBytes}, {}, {FALSE})

NextK8s == \E e \in WatchEvents : Len(events) < MaxEvents /\ watch(e)

SpecK8s == InitK8s /\ [][NextK8s]_vars

\* The events handled so far that gave uid u an address, and those that
\* deleted it.
Upserts(u) ==
    {i \in 1..Len(events) :
        /\ events[i].kind \in {"ADDED", "MODIFIED"}
        /\ events[i].uid = u
        /\ events[i].pod_ip \in Ipv4}
Deletes(u) == {i \in 1..Len(events) : events[i].kind = "DELETED" /\ events[i].uid = u}
Present(u) ==
    /\ Upserts(u) # {}
    /\ \A d \in Deletes(u) : d < MaxIdx(Upserts(u))

\* C20: after any sequence of watch events the peer map holds exactly the
\* uids that got an ADDED or MODIFIED event with a parseable pod IP and no
\* DELETED event since, each with the IP of the last such ADDED or MODIFIED
\* event; and get() returns exactly these addresses.
C20_PeersFollowEvents ==
    /\ DOMAIN peers = {u \in Uids : Present(u)}
    /\ \A u \in DOMAIN peers :
          peers[u] = [kind |-> "Ipv4Addr", ip |-> events[MaxIdx(Upserts(u))].pod_ip]
    /\ Len(K8s_get(peers)) = Cardinality({u \in Uids : Present(u)})
    /\ \A u \in Uids :
          Present(u) => \E i \in 1..Len(K8s_get(peers)) :
                           K8s_get(peers)[i].ip = events[MaxIdx(Upserts(u))].pod_ip

\* u1 was added at 10.0.0.1, then modified to 10.0.0.2; u2 was added and then
\* deleted: the map holds u1 alone, at 10.0.0.2.
C20_Witness ==
    /\ Len(events) = MaxEvents
    /\ \E i, j \in 1..Len(events) :
          /\ i < j
          /\ events[i] = WatchEvent("ADDED", "u1", "10.0.0.1")
          /\ events[j] = WatchEvent("MODIFIED", "u1", "10.0.0.2")
    /\ \E i \in 1..Len(events) : events[i].kind = "DELETED" /\ events[i].uid = "u2"
    /\ DOMAIN peers = {"u1"}
    /\ peers["u1"].ip = "10.0.0.2"

\* ------------------------------------------------------------------- boot
\* One node from the start of run(): what its seeder may load (nothing that
\* decodes, an entry, one that expires, one without ts, one whose ts + ttl is
\* beyond u64), and one client once the agent serves.
SeedBlobs ==
    {NoBytes, Single("cat", "garfield", 1, NoTtl), Single("cat", "nyan", 2, 1),
     Single("cat", "nyan", NoTs, NoTtl), Single("dog", "nyan", 1, U64Max)}
Seeders == {NoSeeder, FailingSeeder} \cup {Seeder(b) : b \in SeedBlobs}
BootInputs == {Single("cat", "garfield", 1, NoTtl)}

InitBoot == InitNew(BootInputs, {ConfiguredTtl}, BOOLEAN, MAX_SET_OPS, Seeders)

\* init has returned and the process has not exited.
Up(n) == boot[n].pc = "running" /\ tasks.result = "pending"

NextBoot ==
    \/ tasks.result = "pending" /\ Tick
    \/ init_seed("n1")
    \/ init_spawn("n1")
    \/ Up("n1") /\ \E ok \in BOOLEAN : bind("conn", ok)
    \/ Up("n1") /\ \E ok \in BOOLEAN : bind("agent", ok)
    \/ run_await
    \/ Up("n1") /\ tasks.agent = "serving" /\ \E p \in inputs : SetCall("n1", p)
    \/ Up("n1") /\ SetResume("n1")
    \/ Up("n1") /\ Worker("n1")
    \/ Up("n1") /\ Purge("n1")

SpecBoot == InitBoot /\ [][NextBoot]_vars

\* The seeder's load returned bytes that decode.
Decodes(sd) == sd.configured /\ sd.ok /\ sd.data.ok

\* C21: init calls load at most once, while neither the ingest worker nor the
\* purge ticker is started, and merges the loaded map with Default::set; when
\* load fails or the bytes do not decode, init goes on with the store empty;
\* and init ends with the ingest worker and the purge ticker started, whatever
\* the seeder did.
C21_SeedOnceBeforeWorkers ==
    [][boot'["n1"] # boot["n1"]
          => LET sd == boot["n1"].seeder
             IN /\ boot'["n1"].loads <= 1
                /\ boot'["n1"].loads > boot["n1"].loads
                      => /\ boot["n1"].pc = "new"
                         /\ ~rx_alive["n1"]
                         /\ last_merge["n1"] = "none"
                /\ (boot["n1"].pc = "new" /\ Decodes(sd))
                      => \/ boot'["n1"].pc = "panicked"
                         \/ storage'["n1"] =
                               Merged(EmptyMap, from_slice(sd.data, now), ttl["n1"], now)
                /\ (boot["n1"].pc = "new" /\ ~Decodes(sd))
                      => /\ boot'["n1"].pc = "seeded"
                         /\ storage'["n1"] = EmptyMap
                /\ boot["n1"].pc = "seeded"
                      => /\ boot'["n1"].pc = "running"
                         /\ rx_alive'["n1"]
                         /\ storage'["n1"] = storage["n1"]]_vars

\* The seeder's bytes did not decode: init has ended with one load made, and
\* the ingest worker has since merged a client's payload into the empty store.
C21_Witness ==
    /\ boot["n1"].pc = "running"
    /\ boot["n1"].seeder = Seeder(NoBytes)
    /\ boot["n1"].loads = 1
    /\ rx_alive["n1"]
    /\ last_merge["n1"] = "inserted"

\* C22: once both servers have tried to bind and run() has nothing left to
\* act on, a bind that failed has made run() return an error.
C22_BindFailureIsFatal ==
    (/\ tasks.conn # "spawned"
     /\ tasks.agent # "spawned"
     /\ "failed" \in {tasks.conn, tasks.agent}
     /\ tasks[tasks.order[tasks.awaiting]] # "failed")
        => tasks.result = "err"

\* ------------------------------------------------------------ replication
\* Node n1 has clients, publishes to n2, and n2 pulls from n1, while the
\* clock runs: an entry with a ts of its client, and one that leaves the ts
\* to the ingest worker of n1.
SpreadInputs == {Single("cat", "garfield", 1, NoTtl), Single("dog", "nyan", NoTs, NoTtl)}

InitSpread == InitWith(SpreadInputs, {}, {FALSE})

\* As in the gossip runs, the loops take turns: a client writes, and a tick
\* of the publisher or the receiver starts, when nothing is in progress.
NextSpread ==
    \/ Tick
    \/ \E p \in inputs : Quiet /\ SetCall("n1", p)
    \/ \E n \in Nodes : Worker(n)
    \/ PublisherTick("n1")
    \/ publisher_root("n1")
    \/ publisher_diff("n1")
    \/ publisher_stamp("n1")
    \/ publisher_send("n1")
    \/ ReceiverTick("n2")
    \/ receiver_served("n2")
    \/ receiver_collect("n2")

SpecSpread == InitSpread /\ [][NextSpread]_vars

\* The entries created so far: those a client of n1 sent with a ts, and those
\* the ingest worker of n1 stamped.
Origin ==
    {[key |-> b.body[i].key, value |-> b.body[i].value, ts |-> b.body[i].ts] :
        b \in {x \in inputs : x.ok /\ Len(x.body) = 1}, i \in {1}}
      \cup created["n1"]
FromOrigin(k, e) == [key |-> k, value |-> e.value, ts |-> e.ts] \in Origin

\* C23: on both nodes every stored entry has the ts and the value it was
\* created with; so has every entry of a payload pushed to n2 or pulled by
\* it, and of what get_root returns.
C23_TsPropagatedUnchanged ==
    /\ \A n \in Nodes : \A k \in DOMAIN storage[n] : FromOrigin(k, storage[n][k])
    /\ \A n \in Nodes : \A k \in DOMAIN get_root(storage[n]) :
          FromOrigin(k, get_root(storage[n])[k])
    /\ \A i \in 1..Len(queue["n2"]) :
          queue["n2"][i].ok
             => \A j \in 1..Len(queue["n2"][i].body) :
                   LET m == queue["n2"][i].body[j]
                   IN m.ts # NoTs /\ FromOrigin(m.key, m)

\* The worker of n1 stamped "dog" itself, after the clock had moved on, and n2
\* holds both entries of n1 as n1 does.
C23_Witness ==
    /\ DOMAIN storage["n2"] = {"cat", "dog"}
    /\ storage["n2"] = storage["n1"]
    /\ storage["n1"]["dog"].ts > 1
    /\ now > storage["n1"]["dog"].ts

\* ------------------------------------------------------- expired incoming
\* C24: a merge step leaves alone every key whose incoming entry is expired
\* by its own ttl (now > ts + ttl): the key is not inserted, and a stored
\* entry of the key stays as it is, whatever its ts.
C24_ExpiredIncomingSkipped ==
    [][MergeStep("n1")
          => LET b == Head(queue["n1"])
                 map == from_slice(b, now)
             IN b.ok =>
                   \A k \in DOMAIN map :
                      ExpiredAt(map[k], now)
                         => /\ k \notin DOMAIN storage["n1"] => k \notin DOMAIN storage'["n1"]
                            /\ k \in DOMAIN storage["n1"]
                                  => /\ k \in DOMAIN storage'["n1"]
                                     /\ storage'["n1"][k] = storage["n1"][k]]_vars

\* "cat" is stored with ts 1; the entry with ts 2 and ttl 1 was offered and
\* merged after it had expired, and the merge skipped it.
C24_Witness ==
    /\ last_merge["n1"] = "skipped"
    /\ offered["n1"]["cat"] = 2
    /\ "cat" \in DOMAIN storage["n1"]
    /\ storage["n1"]["cat"].ts = 1
    /\ now > 3

\* ------------------------------------------------------ purge and version
\* C25: a purge sweep leaves the dirty flag and the cached version as they
\* are, and when the flag is clear (as a version() call leaves it) version()
\* returns after the sweep what it returned before it.
C25_PurgeKeepsVersion ==
    [][Purge("n1")
          => /\ is_dirty'["n1"] = is_dirty["n1"]
             /\ version'["n1"] = version["n1"]
             /\ ~is_dirty["n1"]
                   => (IF is_dirty'["n1"] THEN to_string(hash(storage'["n1"]))
                       ELSE version'["n1"]) = VersionNow("n1")]_vars

\* version() returned the digest of a store that held entries; a sweep has
\* since removed them all, and the flag is clear and the cached version still
\* what that call returned.
C25_Witness ==
    /\ vlast["n1"].called
    /\ storage["n1"] = EmptyMap
    /\ ~is_dirty["n1"]
    /\ version["n1"] = vlast["n1"].ret
    /\ version["n1"] # EmptyString
    /\ version["n1"] # to_string(hash(EmptyMap))

\* ------------------------------------------------------------- publishing
\* Node n1 has clients and a purge ticker, the clock runs, and its publisher
\* pushes to n2: an entry that stays, and one that expires.
PublishInputs == {Single("cat", "garfield", 1, NoTtl), Single("dog", "nyan", 1, 1)}

InitPublish == InitWith(PublishInputs, {}, {FALSE})

NextPublish ==
    \/ Tick
    \/ \E p \in inputs : SetCall("n1", p)
    \/ \E n \in Nodes :
          \/ SetResume(n)
          \/ Worker(n)
    \/ Purge("n1")
    \/ publisher_check("n1")
    \/ publisher_root("n1")
    \/ publisher_diff("n1")
    \/ publisher_stamp("n1")
    \/ publisher_send("n1")
    \/ publisher_send_failed("n1")

SpecPublish == InitPublish /\ [][NextPublish]_vars

\* A step in which a PUT of node n reaches or fails to reach its peer.
PutStep(n) == push[n].pc = "send" /\ push'[n].pc = "delay"

\* C26: a tick that finds state.version() equal to last_published_version, or
\* the bytes of the root equal to last_published, ends there: the publisher
\* is back in its delay with last_published and last_published_version as
\* they were, and no PUT was made (a payload reaches the set_handler of the
\* peer from the send step only).
C26_NothingSentWhenUnchanged ==
    [][/\ (publisher_check("n1") /\ last_published_version["n1"] = VersionNow("n1"))
            => /\ push'["n1"] = Asleep
               /\ last_published'["n1"] = last_published["n1"]
               /\ last_published_version'["n1"] = last_published_version["n1"]
               /\ queue'["n2"] = queue["n2"]
               /\ senders'["n2"] = senders["n2"]
       /\ (publisher_root("n1") /\ as_bytes(get_root(storage["n1"])) = last_published["n1"])
            => /\ push'["n1"] = Asleep
               /\ last_published'["n1"] = last_published["n1"]
               /\ last_published_version'["n1"] = last_published_version["n1"]
               /\ queue'["n2"] = queue["n2"]
               /\ senders'["n2"] = senders["n2"]
       /\ Len(queue'["n2"]) + Len(senders'["n2"]) > Len(queue["n2"]) + Len(senders["n2"])
            => PutStep("n1")]_vars

\* The tick has passed the version test and is about to take a root that
\* equals last_published, which is the root of an earlier publish.
C26_Witness ==
    /\ push["n1"].pc = "root"
    /\ last_published["n1"].ok
    /\ as_bytes(get_root(storage["n1"])) = last_published["n1"]
    /\ last_published_version["n1"] # version["n1"]

\* C27: when last_published does not decode, so that diff fails, the payload
\* is the root of this tick.
C27_FullRootWhenDiffFails ==
    [][(publisher_diff("n1") /\ ~last_published["n1"].ok)
          => /\ push'["n1"].payload = push["n1"].root
             /\ push'["n1"].root = push["n1"].root]_vars

\* The first publishing tick: last_published is still empty, and the payload
\* is the root, which holds both entries.
C27_Witness ==
    /\ push["n1"].pc = "stamp"
    /\ last_published["n1"] = EmptyBody
    /\ push["n1"].payload = push["n1"].root
    /\ Len(push["n1"].root.body) = 2

\* ---------------------------------------------------- undecodable payloads
\* C28: the ingest worker drops a payload that does not decode, as a whole:
\* the store, the dirty flag and the cached version stay as they are, the
\* worker keeps running, and the payloads enqueued after it stay pending in
\* their order, for the worker's next steps.
C28_UndecodableDropped ==
    [][(MergeStep("n1") /\ ~Head(queue["n1"]).ok)
          => /\ storage'["n1"] = storage["n1"]
             /\ is_dirty'["n1"] = is_dirty["n1"]
             /\ version'["n1"] = version["n1"]
             /\ rx_alive'["n1"]
             /\ queue'["n1"] = Tail(queue["n1"])]_vars

\* The worker has dropped a payload that does not decode, the store is still
\* empty, and the payload enqueued behind it is next.
C28_Witness ==
    /\ last_merge["n1"] = "undecodable"
    /\ backlog["n1"] = 1
    /\ offered["n1"]["cat"] = 1
    /\ queue["n1"] = <<Single("cat", "garfield", 1, NoTtl)>>
    /\ storage["n1"] = EmptyMap
    /\ rx_alive["n1"]

\* ------------------------------------------------------- sampled peers
\* The peer provider follows the pods while the receiver and the publisher
\* take their samples, for every r0 of 0 .. MaxR0.
NextSample ==
    \/ NextK8s
    \/ \E r0 \in 0..MaxR0 : receiver_sample(r0)
    \/ \E r0 \in 0..MaxR0 : publisher_sample(r0)

SpecSample == InitK8s /\ [][NextSample]_vars

\* C29: the peers contacted in a tick are elements of the snapshot taken in
\* that tick, min(r0, size of the snapshot) of them, and no peer is among
\* them twice.
C29_SampleIsDistinctSubset ==
    sampled.loop # "none"
        => /\ sampled.picks \subseteq 1..Len(sampled.snapshot)
           /\ Cardinality(sampled.picks) = Min2(sampled.r0, Len(sampled.snapshot))
           /\ \A i, j \in sampled.picks :
                 i # j => Contacted(sampled)[i] # Contacted(sampled)[j]

\* ------------------------------------------------------------- dirty flag
\* C30: from a merge that inserts a key or replaces an entry until the next
\* version() call, the dirty flag is true.
C30_DirtyUntilVersion == changed["n1"] => is_dirty["n1"]
\* ----------------------------------------------------------------- expiry
\* The entries is_expired is evaluated on: the stored ones (get, purge) and
\* those of the payload async_set merges next.
Evaluated(n) ==
    {storage[n][k] : k \in DOMAIN storage[n]}
        \cup (IF queue[n] # <<>> /\ recv(queue[n]).ok
              THEN {from_slice(recv(queue[n]), now)[k] :
                       k \in DOMAIN from_slice(recv(queue[n]), now)}
              ELSE {})

\* C39: is_expired returns true exactly when now > ts + ttl in unbounded
\* arithmetic, for every entry it is evaluated on, and evaluating it aborts
\* neither the ingest worker nor the purge sweep (no panic: the receiver
\* lives on and the storage lock is not poisoned).
C39_ExpiryWithoutOverflow ==
    /\ \A e \in Evaluated("n1") :
          /\ ~Panics(e)
          /\ is_expired(e, now) <=> ExpiredAt(e, now)
    /\ rx_alive["n1"]
    /\ ~poisoned["n1"]

\* C36: immediately after a merge, every entry the merge inserted or replaced
\* is not expired (now <= ts + ttl), the entries that came without a ttl and
\* received the default ttl of the engine included.
C36_StoredIsNotExpired ==
    [][MergeStep("n1")
          => \A k \in Touched(storage["n1"], storage'["n1"]) :
                ~ExpiredAt(storage'["n1"][k], now)]_vars

\* C37: when a merge meets a non-expired incoming entry for a key whose
\* stored entry is expired, the incoming entry (with the default ttl filled
\* in) is stored and get(k) returns it, whatever the two timestamps are.
C37_ExpiredDoesNotBlock ==
    [][(MergeStep("n1") /\ Head(queue["n1"]).ok)
          => LET map == from_slice(Head(queue["n1"]), now)
             IN \A k \in DOMAIN map \cap DOMAIN storage["n1"] :
                   (/\ ExpiredAt(storage["n1"][k], now)
                    /\ ~ExpiredAt(map[k], now)
                    /\ ~ExpiredAt(WithDefaultTtl(map[k], ttl["n1"]), now))
                      => /\ storage'["n1"][k] = WithDefaultTtl(map[k], ttl["n1"])
                         /\ get(storage'["n1"], k, now) =
                               Restrict(storage'["n1"], {k})]_vars

\* ------------------------------------------------------- merges and version
\* One node whose clients write and ask for the version while the ingest
\* worker merges; no purge sweep runs.
NextMerge ==
    \/ Tick
    \/ \E p \in inputs : SetCall("n1", p)
    \/ SetResume("n1")
    \/ Worker("n1")
    \/ Version("n1")

SpecMerge == InitVersion /\ [][NextMerge]_vars

\* C32: a version() call that follows merges of which one inserted or
\* replaced an entry (whatever merges came after it: empty payloads, payloads
\* whose entries are all expired) returns the hash of the current content of
\* the store.
C32_VersionAfterMerges ==
    [][(Version("n1") /\ changed["n1"])
          => vlast'["n1"].ret = to_string(hash(storage["n1"]))]_vars

\* ----------------------------------------------------------- full channel
\* C31: the channel never holds more than MAX_SET_OPS payloads; a set call
\* blocks only on a full channel; a blocked call ends with its payload
\* entering the channel; and while a call is blocked a payload leaves the
\* channel only at its head, taken by an ingest worker that completes the
\* iteration and keeps running (so that the blocked payload is merged later).
C31_BlockedPayloadIsMerged ==
    [][/\ Len(queue'["n1"]) <= MAX_SET_OPS
       /\ Len(senders'["n1"]) > Len(senders["n1"])
            => Len(queue["n1"]) = MAX_SET_OPS
       /\ Len(senders'["n1"]) < Len(senders["n1"])
            => \E i \in 1..Len(senders["n1"]) :
                  /\ senders'["n1"] = RemoveAt(senders["n1"], i)
                  /\ queue'["n1"] = Append(queue["n1"], senders["n1"][i])
       /\ (senders["n1"] # <<>> /\ Len(queue'["n1"]) < Len(queue["n1"]))
            => /\ queue'["n1"] = Tail(queue["n1"])
               /\ rx_alive'["n1"]]_vars

\* ------------------------------------------------- what was published last
\* C34: once a publishing tick has recorded a root, last_published_version
\* is the version string of the content held in last_published.
C34_VersionOfLastPublished ==
    last_published["n1"].ok
        => last_published_version["n1"] =
              to_string(hash(from_slice(last_published["n1"], now)))

\* ------------------------------------------------------- failed publishes
\* The pushes of n1 to n2 with every thread scheduled again and again: the
\* ingest workers, the blocked callers and the publisher loop take their
\* steps; whether a PUT gets through is left to the network.
FairPush ==
    /\ \A n \in Nodes : WF_vars(Worker(n)) /\ WF_vars(SetResume(n))
    /\ WF_vars(\/ publisher_check("n1")
               \/ publisher_root("n1")
               \/ publisher_diff("n1")
               \/ publisher_stamp("n1")
               \/ publisher_send("n1")
               \/ publisher_send_failed("n1"))

SpecRetry == InitPush /\ [][NextPush]_vars /\ FairPush

\* The payload b carries the entry of key k with timestamp ts.
Carries(b, k, ts) ==
    b.ok /\ \E i \in 1..Len(b.body) : b.body[i].key = k /\ b.body[i].ts = ts

\* The entry (k, ts) has reached node n: it is pending in its channel, or its
\* store holds k at that timestamp or a later one.
Reached(n, k, ts) ==
    \/ k \in DOMAIN storage[n] /\ storage[n][k].ts >= ts
    \/ \E i \in 1..Len(queue[n]) : Carries(queue[n][i], k, ts)
    \/ \E i \in 1..Len(senders[n]) : Carries(senders[n][i], k, ts)

\* A tick of n1 is over whose payload carried (k, ts) and reached no peer.
Unreached(k, ts) ==
    /\ push["n1"].pc = "delay"
    /\ Carries(push["n1"].payload, k, ts)
    /\ ~Reached("n2", k, ts)

\* C35: an entry of a payload that reached no peer is in the payload of a
\* later publishing tick, unless a further local change arrives first.
C35_UnreachedIsPushedAgain ==
    \A k \in Keys : \A ts \in 1..2 :
        Unreached(k, ts)
            ~> \/ push["n1"].pc \in {"stamp", "send"} /\ Carries(push["n1"].payload, k, ts)
               \/ queue["n1"] # <<>>
               \/ senders["n1"] # <<>>

\* ------------------------------------------------------ locks and threads
\* The operations of the engine step by step, with the guards they take on
\* the RwLocks of Default. A guard is a pair <<holder, "r" or "w">>.

\* A variant of the read lock that is granted whatever guard is held.
CanRead_Always(n, l) == TRUE

\* RwLock::write is granted when no guard is held on the lock.
CanWrite(n, l) == locks[n][l] = {}

\* RwLock::read is granted when no write guard is held on the lock; on
\* storage, a writer that waits for the lock (the ingest worker, about to
\* merge) holds back the readers that come after it.
CanRead(n, l) ==
    /\ \A g \in locks[n][l] : g[2] = "r"
    /\ l = "storage" => merging[n].pc # "lock"

Acquired(n, l, who, mode) == [locks EXCEPT ![n][l] = @ \cup {<<who, mode>>}]

\* The guards of `who` on the locks of ls are dropped.
Dropped(n, who, ls) ==
    [locks EXCEPT ![n] =
        [l \in DOMAIN locks[n] |->
            IF l \in ls THEN {g \in locks[n][l] : g[1] # who} ELSE locks[n][l]]]

AllLocks == {"storage", "version", "is_dirty"}

\* What the steps below leave alone.
ThreadKeeps ==
    /\ UNCHANGED <<now, overflow_checks, inputs, ttl, senders, offered, accepted, changed,
                   last_set, last_merge, bound, backlog, boot, tasks, created, sampled>>
    /\ UNCHANGED conn_vars

\* async_set: rx.iter() yields the next payload and from_slice decodes it; a
\* payload that does not decode is dropped.
async_set_recv(n) ==
    /\ rx_alive[n]
    /\ merging[n].pc = "idle"
    /\ queue[n] # <<>>
    /\ queue' = [queue EXCEPT ![n] = Tail(@)]
    /\ merging' = [merging EXCEPT ![n] =
                      IF recv(queue[n]).ok
                      THEN [NotMerging EXCEPT !.pc = "lock",
                                              !.map = from_slice(recv(queue[n]), now)]
                      ELSE NotMerging]
    /\ UNCHANGED <<storage, is_dirty, version, rx_alive, poisoned, vlast, ret, locks, calls>>
    /\ ThreadKeeps

\* Default::set, `let mut storage = self.storage.write().unwrap()`: the write
\* guard, or a panic that ends async_set when the lock is poisoned.
set_lock(n) ==
    /\ merging[n].pc = "lock"
    /\ CanWrite(n, "storage")
    /\ IF poisoned[n]
       THEN /\ merging' = [merging EXCEPT ![n] =
                              [@ EXCEPT !.pc = "dead", !.before = storage[n]]]
            /\ rx_alive' = [rx_alive EXCEPT ![n] = FALSE]
            /\ queue' = [queue EXCEPT ![n] = <<>>]
            /\ UNCHANGED locks
       ELSE /\ merging' = [merging EXCEPT ![n] =
                              [@ EXCEPT !.pc = "loop", !.todo = DOMAIN merging[n].map,
                                        !.before = storage[n]]]
            /\ locks' = Acquired(n, "storage", "worker", "w")
            /\ UNCHANGED <<rx_alive, queue>>
    /\ UNCHANGED <<storage, is_dirty, version, poisoned, vlast, ret, calls>>
    /\ ThreadKeeps

\* One turn of the loop of Default::set, for an entry the HashMap yields next.
\* In a build with overflow checks is_expired may panic: the guard is dropped
\* by the unwinding, the lock is poisoned and async_set ends.
set_entry(n) ==
    /\ merging[n].pc = "loop"
    /\ \E k \in merging[n].todo :
          IF Panics(merging[n].map[k])
          THEN /\ poisoned' = [poisoned EXCEPT ![n] = TRUE]
               /\ rx_alive' = [rx_alive EXCEPT ![n] = FALSE]
               /\ queue' = [queue EXCEPT ![n] = <<>>]
               /\ locks' = Dropped(n, "worker", AllLocks)
               /\ merging' = [merging EXCEPT ![n] = [@ EXCEPT !.pc = "dead"]]
               /\ UNCHANGED storage
          ELSE /\ storage' = [storage EXCEPT ![n] =
                                 Merged(@, Restrict(merging[n].map, {k}), ttl[n], now)]
               /\ merging' = [merging EXCEPT ![n] =
                                 [@ EXCEPT !.todo = @ \ {k},
                                           !.dirty = @ \/ DirtyAfter(Restrict(merging[n].map, {k}),
                                                                     now)]]
               /\ UNCHANGED <<poisoned, rx_alive, queue, locks>>
    /\ UNCHANGED <<is_dirty, version, vlast, ret, calls>>
    /\ ThreadKeeps

\* The end of Default::set: `*self.is_dirty.write().unwrap() = is_dirty`, then
\* the guards are dropped.
set_flag(n) ==
    /\ merging[n].pc = "loop"
    /\ merging[n].todo = {}
    /\ CanWrite(n, "is_dirty")
    /\ is_dirty' = [is_dirty EXCEPT ![n] = merging[n].dirty]
    /\ locks' = Dropped(n, "worker", AllLocks)
    /\ merging' = [merging EXCEPT ![n] = NotMerging]
    /\ UNCHANGED <<storage, version, queue, rx_alive, poisoned, vlast, ret, calls>>
    /\ ThreadKeeps

\* The purge ticker: Default::purge under the write guard of storage.
purge_sweep(n) ==
    /\ CanWrite(n, "storage")
    /\ Purge(n)

\* A thread enters get, get_root, diff or version.
Ops == {"get", "get_root", "diff", "version"}
call(n, c, op) ==
    /\ calls[n][c].pc = "idle"
    /\ calls' = [calls EXCEPT ![n][c] =
                    [op |-> op, pc |-> IF op = "version" THEN "check" ELSE "read", hash |-> 0]]
    /\ UNCHANGED <<storage, is_dirty, version, queue, rx_alive, poisoned, vlast, ret, locks,
                   merging>>
    /\ ThreadKeeps

\* get, get_root and diff: `self.storage.read().unwrap().clone()`, the
\* snapshot the call works on (a panic when the lock is poisoned).
storage_clone(n, c) ==
    /\ calls[n][c].pc = "read"
    /\ CanRead(n, "storage")
    /\ ret' = IF poisoned[n] THEN Ret(calls[n][c].op, "", NoBytes, "panic", EmptyMap)
              ELSE Ret(calls[n][c].op, "", NoBytes, "some", storage[n])
    /\ calls' = [calls EXCEPT ![n][c] = NoCall]
    /\ UNCHANGED <<storage, is_dirty, version, queue, rx_alive, poisoned, vlast, locks, merging>>
    /\ ThreadKeeps

\* A variant of the test of version() that keeps the read guard of is_dirty
\* for the rest of the call.
version_check_KeepsGuard(n, c) ==
    /\ calls[n][c].pc = "check"
    /\ CanRead(n, "is_dirty")
    /\ calls' = [calls EXCEPT ![n][c].pc = IF is_dirty[n] THEN "hash" ELSE "load"]
    /\ locks' = Acquired(n, "is_dirty", c, "r")
    /\ UNCHANGED <<storage, is_dirty, version, queue, rx_alive, poisoned, vlast, ret, merging>>
    /\ ThreadKeeps

\* version(), `if self.is_dirty.read().unwrap().clone()`: the guard is a
\* temporary of the condition and is dropped before the body.
version_check(n, c) ==
    /\ calls[n][c].pc = "check"
    /\ CanRead(n, "is_dirty")
    /\ calls' = [calls EXCEPT ![n][c].pc = IF is_dirty[n] THEN "hash" ELSE "load"]
    /\ UNCHANGED <<storage, is_dirty, version, queue, rx_alive, poisoned, vlast, ret, locks,
                   merging>>
    /\ ThreadKeeps

\* version(), the right-hand side `hash(&self.storage.read().unwrap())`: the
\* read guard of storage lives to the end of the statement (a panic when the
\* lock is poisoned).
version_hash(n, c) ==
    /\ calls[n][c].pc = "hash"
    /\ CanRead(n, "storage")
    /\ IF poisoned[n]
       THEN /\ calls' = [calls EXCEPT ![n][c] = NoCall]
            /\ locks' = Dropped(n, c, AllLocks)
       ELSE /\ calls' = [calls EXCEPT ![n][c] =
                            [@ EXCEPT !.pc = "store", !.hash = hash(storage[n])]]
            /\ locks' = Acquired(n, "storage", c, "r")
    /\ UNCHANGED <<storage, is_dirty, version, queue, rx_alive, poisoned, vlast, ret, merging>>
    /\ ThreadKeeps

\* version(), the left-hand side `*self.version.write().unwrap() = ...`, then
\* the guards of the statement are dropped.
version_store(n, c) ==
    /\ calls[n][c].pc = "store"
    /\ CanWrite(n, "version")
    /\ version' = [version EXCEPT ![n] = to_string(calls[n][c].hash)]
    /\ locks' = Dropped(n, c, {"storage", "version"})
    /\ calls' = [calls EXCEPT ![n][c].pc = "clear"]
    /\ UNCHANGED <<storage, is_dirty, queue, rx_alive, poisoned, vlast, ret, merging>>
    /\ ThreadKeeps

\* version(), `*self.is_dirty.write().unwrap() = false`.
version_clear(n, c) ==
    /\ calls[n][c].pc = "clear"
    /\ CanWrite(n, "is_dirty")
    /\ is_dirty' = [is_dirty EXCEPT ![n] = FALSE]
    /\ calls' = [calls EXCEPT ![n][c].pc = "load"]
    /\ UNCHANGED <<storage, version, queue, rx_alive, poisoned, vlast, ret, locks, merging>>
    /\ ThreadKeeps

\* version(), `self.version.read().unwrap().clone()`: the string handed back;
\* the call is over and holds no guard.
version_load(n, c) ==
    /\ calls[n][c].pc = "load"
    /\ CanRead(n, "version")
    /\ vlast' = [vlast EXCEPT ![n] = [called |-> TRUE, ret |-> version[n]]]
    /\ calls' = [calls EXCEPT ![n][c] = NoCall]
    /\ locks' = Dropped(n, c, AllLocks)
    /\ UNCHANGED <<storage, is_dirty, version, queue, rx_alive, poisoned, ret, merging>>
    /\ ThreadKeeps

\* One node with its clients (who write while the channel has room), its
\* ingest worker, its purge ticker and two threads that read the store and
\* ask for the version.
NextLocks ==
    \/ \E p \in inputs : Len(queue["n1"]) < bound /\ SetCall("n1", p)
    \/ async_set_recv("n1")
    \/ set_lock("n1")
    \/ set_entry("n1")
    \/ set_flag("n1")
    \/ purge_sweep("n1")
    \/ \E c \in Callers :
          \/ \E op \in Ops : call("n1", c, op)
          \/ storage_clone("n1", c)
          \/ version_check("n1", c)
          \/ version_hash("n1", c)
          \/ version_store("n1", c)
          \/ version_clear("n1", c)
          \/ version_load("n1", c)

\* Payloads of two entries: one whose entries stay inside u64, one whose
\* second entry has ts + ttl beyond u64.
LockInputs ==
    {Pair(Member("cat", "garfield", 1, NoTtl), Member("dog", "nyan", 1, NoTtl)),
     Pair(Member("cat", "nyan", 2, NoTtl), Member("dog", "nyan", 1, U64Max))}

InitLocks == InitWith(LockInputs, {}, BOOLEAN)

SpecLocks == InitLocks /\ [][NextLocks]_vars

\* ---------------------------------------------------------- atomic merges
\* The stores a reader may see while the payload merging[n].map is being
\* merged: the store before the payload, and the store with all its entries
\* merged (which a payload whose merge panics never produces).
Whole(n) ==
    IF merging[n].pc \in {"loop", "dead"}
    THEN {merging[n].before}
            \cup (IF \E k \in DOMAIN merging[n].map : Panics(merging[n].map[k])
                  THEN {}
                  ELSE {Merged(merging[n].before, merging[n].map, ttl[n], now)})
    ELSE {storage[n]}

\* Some entries of the payload are merged into the store and others are not.
Torn(n) == storage[n] \notin Whole(n)

\* C38: the snapshot a get, get_root or diff call clones, and the store a
\* version() call hashes, hold the effect of all the entries of a payload or
\* of none of them, under every interleaving with the ingest worker.
C38_MergeIsAtomicForReaders ==
    [][\A c \in Callers :
          /\ (storage_clone("n1", c) /\ ret'.status = "some")
                => ret'.map \in Whole("n1")
          /\ (version_hash("n1", c) /\ calls'["n1"][c].pc = "store")
                => \E st \in Whole("n1") : calls'["n1"][c].hash = hash(st)]_vars

\* The ingest worker has merged one entry of a payload of two and holds the
\* write guard, while a get_root call and a version() call wait for their
\* read guard.
C38_Witness ==
    /\ Torn("n1")
    /\ merging["n1"].pc = "loop"
    /\ Cardinality(merging["n1"].todo) = 1
    /\ calls["n1"]["c1"].op = "get_root"
    /\ calls["n1"]["c1"].pc = "read"
    /\ calls["n1"]["c2"].pc = "hash"

\* ------------------------------------------------- version() and the worker
\* The same threads with payloads of one live entry each, in a build without
\* overflow checks: every merge holds a live entry and raises the flag.
RaceInputs == {Single("cat", "garfield", 1, NoTtl), Single("dog", "nyan", 1, NoTtl)}

InitRace == InitWith(RaceInputs, {}, {FALSE})

SpecRace == InitRace /\ [][NextLocks]_vars

\* No payload is pending or being merged and no call is in progress.
Quiescent(n) ==
    /\ Drained(n)
    /\ merging[n].pc = "idle"
    /\ \A c \in Callers : calls[n][c].pc = "idle"

\* C33: once the system is quiescent, a store that has taken a merge and
\* whose dirty flag is false has the hash of its content as cached version.
C33_CleanFlagMeansCurrentVersion ==
    (Quiescent("n1") /\ ~is_dirty["n1"] /\ storage["n1"] # EmptyMap)
        => version["n1"] = to_string(hash(storage["n1"]))

\* ------------------------------------------------------------- lock order
\* The threads of one node, each scheduled again and again. A guard on
\* version or on is_dirty is never held across steps, and once the ingest
\* worker waits for storage no new reader is let in: those steps stay
\* possible until they are taken. A reader of storage may find the lock taken
\* by the worker time after time, and gets it because the lock is handed to
\* every thread that keeps asking. The clients write as they please.
FairLocks ==
    /\ WF_vars(async_set_recv("n1"))
    /\ WF_vars(set_lock("n1"))
    /\ WF_vars(set_entry("n1"))
    /\ WF_vars(set_flag("n1"))
    /\ \A c \in Callers :
          /\ SF_vars(storage_clone("n1", c))
          /\ WF_vars(version_check("n1", c))
          /\ SF_vars(version_hash("n1", c))
          /\ WF_vars(version_store("n1", c))
          /\ WF_vars(version_clear("n1", c))
          /\ WF_vars(version_load("n1", c))

\* A payload of two entries, the second with ts + ttl beyond u64: its merge
\* panics in a build with overflow checks.
OrderInputs ==
    {Pair(Member("cat", "garfield", 1, NoTtl), Member("dog", "nyan", 1, U64Max))}

InitOrder == InitWith(OrderInputs, {}, BOOLEAN)

SpecOrder == InitOrder /\ [][NextLocks]_vars /\ FairLocks

\* C40: a merge the ingest worker has started is over in the end (the worker
\* is back at the channel, or it has panicked and dropped its guard); a get,
\* get_root, diff or version call that has started is over in the end; and
\* the storage lock is free again and again, so that the purge sweep, one
\* step under the write guard, gets its turn.
C40_EveryOperationCompletes ==
    /\ (merging["n1"].pc \in {"lock", "loop"}) ~> (merging["n1"].pc \in {"idle", "dead"})
    /\ \A c \in Callers : (calls["n1"][c].pc # "idle") ~> (calls["n1"][c].pc = "idle")
    /\ []<>(locks["n1"]["storage"] = {})

\* The ingest worker waits for the write guard of storage while a version()
\* call holds its read guard and waits for the write guard of version, and a
\* get call waits behind the worker.
C40_Witness ==
    /\ merging["n1"].pc = "lock"
    /\ <<"c1", "r">> \in locks["n1"]["storage"]
    /\ calls["n1"]["c1"].pc = "store"
    /\ calls["n1"]["c2"].op = "get"
    /\ calls["n1"]["c2"].pc = "read"
====
